---- MODULE Spec2Model ----
(***************************************************************************)
(* Model of the real-time relay of chatmaster-app                          *)
(* (src/server/sockets/socketHandler.js) together with the parts of the   *)
(* Conversation Store it reads and writes (models/Chat.js, the Message     *)
(* model, routes/chats.js).                                                *)
(*                                                                         *)
(* An async handler is split at its awaits: one action per resumption.     *)
(* The Store call that an await waits for takes effect (or is read) at the *)
(* moment the handler resumes.                                             *)
(***************************************************************************)
EXTENDS Integers, Sequences, FiniteSets, TLC

\* ------------------------------------------------------------------ bounds
MaxConns == 2      \* sockets that ever attempt to connect
MaxSends == 2      \* send_message events ever received
MaxRest  == 1      \* participant add/remove REST requests ever served
MaxOps   == 2      \* message events (edit, delete, reaction, read) ever received
MaxTime  == 2      \* last reading of the server clock
MaxParts == 2      \* longest participants array of a call record

Conns   == 1..MaxConns
SendIds == 1..MaxSends
OpIds   == 1..MaxOps

\* ------------------------------------------------------- the Store's content
Users   == {"u1", "u2", "u3", "u4"} \* User documents that exist
Clients == {"u1", "u2"}             \* users for which a client holds a token
ChatIds == {"p", "g"}               \* Chat documents that exist
NoChatId == "x"                     \* a chat id with no Chat document
NoUser  == ""
NoSock  == 0

\* User.contacts (models/User.js); fixed during a run
Contacts(u) ==
    CASE u = "u1" -> {"u2"}
      [] u = "u2" -> {"u1"}
      [] OTHER    -> {}

\* ----------------------------------------------------------------- tokens
NoToken == [kind |-> "none", userId |-> NoUser]
Tokens ==
    {NoToken,
     [kind |-> "badsig",  userId |-> "u1"],
     [kind |-> "expired", userId |-> "u1"],
     [kind |-> "valid",   userId |-> "ghost"]}
    \cup {[kind |-> "valid", userId |-> u] : u \in Clients}

VARIABLES
    sockets,      \* socket id -> transport status, handshake token, socket.userId,
                  \*   progress of the connection handler and of the disconnect
                  \*   handler, and the chats the socket has announced typing in
    activeUsers,  \* Map userId -> socketId               (socketHandler.js:7)
    typingUsers,  \* Map chatId -> Set of userIds         (socketHandler.js:8)
    activeCalls,  \* Map callId -> call record            (socketHandler.js:9)
    rooms,        \* adapter rooms: room name -> set of socket ids
    users,        \* Store: User documents (isOnline, socketId)
    chats,        \* Store: Chat documents
    messages,     \* Store: Message documents, in the order they were persisted
    sends,        \* send_message handlers: position and local variables
    restOps,      \* number of participant REST requests served
    wire,         \* packets written to client connections by the last step
    received,     \* per socket: ids of the new_message packets, in arrival order
    ops,          \* handlers of the message events (edit, delete, reactions,
                  \*   read receipts): position and local variables
    now,          \* the server clock read by `new Date()`
    relay         \* the node process of the relay: "up" or "exited"

vars == <<sockets, activeUsers, typingUsers, activeCalls, rooms, users, chats,
          messages, sends, restOps, wire, received, ops, now, relay>>

\* ------------------------------------------------------------ room names
ChatRoom(chatId) == <<"chat", chatId>>
UserRoom(userId) == <<"user", userId>>
RoomNames == {ChatRoom(c) : c \in ChatIds} \cup {UserRoom(u) : u \in Users}

\* ---------------------------------------------------------------- packets
Pkt(to, ev, user, chat, msg, tempId, flag) ==
    [to |-> to, ev |-> ev, user |-> user, chat |-> chat, msg |-> msg,
     tempId |-> tempId, flag |-> flag, data |-> <<>>]

\* a packet whose payload carries a content, a reaction list or a list of ids
PktData(to, ev, user, chat, msg, data) ==
    [Pkt(to, ev, user, chat, msg, 0, FALSE) EXCEPT !.data = data]

IsOpen(c) == sockets[c].status = "open"

\* io.sockets.sockets: the sockets of the namespace (removed on close)
OpenSockets == {c \in Conns : IsOpen(c)}

\* io.to(room).emit(...): every socket of the room that is still connected
IoTo(room) == rooms[room] \cap OpenSockets

\* socket.to(room).emit(...): the room without the emitting socket
SocketTo(c, room) == IoTo(room) \ {c}

\* socket.emit(...): the packet is written only while the transport is open
SocketEmit(c) == IF IsOpen(c) THEN {c} ELSE {}

\* ------------------------------------------------------- Chat model methods
Range(s) == {s[i] : i \in 1..Len(s)}

\* variant: tests that the chat has participants, not that userId is one
IsParticipantOfAny(chat, userId) == Len(chat.participants) > 0

\* chatSchema.methods.isParticipant
IsParticipant(chat, userId) == userId \in Range(chat.participants)

\* variant: looks the user up in participants instead of admins
IsAdminByParticipants(chat, userId) == userId \in Range(chat.participants)

\* chatSchema.methods.isAdmin
IsAdmin(chat, userId) == userId \in chat.admins

\* Chat.find({ participants: userId }).select('_id')
ChatsOf(userId) == {c \in ChatIds : IsParticipant(chats[c], userId)}

\* ------------------------------------------------------------ middleware
\* variant: decodes the payload without verifying signature and expiry
JwtDecode(token) == IF token.kind = "none" THEN "throws" ELSE token.userId

\* jwt.verify: the decoded payload, or "throws"
JwtVerify(token) == IF token.kind = "valid" THEN token.userId ELSE "throws"

\* io.use: the user id put on the socket, or NoUser when next(err) is called
AuthUser(token) ==
    IF token.kind = "none" THEN NoUser
    ELSE IF JwtVerify(token) = "throws" THEN NoUser
    ELSE IF JwtVerify(token) \notin Users THEN NoUser
    ELSE JwtVerify(token)

\* the `chat` local of a handler before Chat.findById has answered (or null)
NoChat == [type |-> "none", participants |-> <<>>, admins |-> {}, creator |-> NoUser,
           onlyAdminsCanMessage |-> FALSE, lastMessage |-> 0]

\* the tokens the middleware accepts
ValidTokens == {tk \in Tokens : AuthUser(tk) # NoUser}

\* --------------------------------------------------------- Message documents
NoDate    == 0                           \* a Date path that was never set
NoMsgId   == 0                           \* a message id with no Message document
Tombstone == "This message was deleted"

\* a Message document as `new Message(...)` and the schema defaults make it;
\* v is the version key __v, createdAt of a reaction and readAt are left out
MessageDoc(id, chatId, sender, type, content) ==
    [id |-> id, chat |-> chatId, sender |-> sender, type |-> type,
     content |-> content, edited |-> FALSE, editedAt |-> NoDate,
     deleted |-> FALSE, deletedAt |-> NoDate, deletedFor |-> <<>>,
     reactions |-> <<>>, readBy |-> <<>>, deliveredTo |-> {}, v |-> 0]

\* the `message` local of a handler when Message.findById answered null
NoMessage == MessageDoc(NoMsgId, NoChatId, NoUser, "none", "")

\* -------------------------------------------------------------------- Init
\* a handler slot of the message events that no event has taken yet; after
\* (the handlers that had ended when the event arrived) and marked (the
\* messages the handler's saves have pushed the reader to) record the past
NoOp == [pc |-> "none", kind |-> "none", sock |-> NoSock, msgId |-> NoMsgId,
         chatId |-> NoChatId, arg |-> "", flag |-> FALSE, ids |-> <<>>,
         read |-> NoMessage, doc |-> NoMessage, write |-> "none",
         todo |-> {}, saving |-> {}, marked |-> {}, after |-> {}]

\* the relay after socketHandler(io) has run, over a Store with the two chats
InitRelay ==
    /\ sockets = [c \in Conns |->
                    [status |-> "idle", token |-> NoToken, userId |-> NoUser,
                     setup |-> "none", cleanup |-> "none", typing |-> {}]]
    /\ activeUsers = <<>>
    /\ typingUsers = <<>>
    /\ activeCalls = <<>>
    /\ rooms = [r \in RoomNames |-> {}]
    /\ users = [u \in Users |-> [isOnline |-> FALSE, socketId |-> NoSock]]
    /\ \E only \in BOOLEAN :
         chats = [c \in ChatIds |->
                    IF c = "p"
                    THEN [type |-> "private", participants |-> <<"u1", "u3">>,
                          admins |-> {}, creator |-> NoUser,
                          onlyAdminsCanMessage |-> FALSE, lastMessage |-> 0]
                    ELSE [type |-> "group", participants |-> <<"u1", "u2", "u3">>,
                          admins |-> {"u1"}, creator |-> "u1",
                          onlyAdminsCanMessage |-> only, lastMessage |-> 0]]
    /\ sends = [t \in SendIds |->
                  [pc |-> "none", sock |-> NoSock, chatId |-> NoChatId, tempId |-> 0,
                   chat |-> NoChat, todo |-> <<>>]]
    /\ restOps = 0
    /\ wire = {}
    /\ received = [c \in Conns |-> <<>>]
    /\ ops = [o \in OpIds |-> NoOp]
    /\ now = 1
    /\ relay = "up"

\* no message has been persisted yet
Init == InitRelay /\ messages = <<>>

\* ------------------------------------------------ connection: io.use + start
\* A client connects with a token.  A rejected handshake never reaches
\* io.on('connection'); an accepted one runs the handler up to its first await.
Connect(c, token) ==
    /\ relay = "up"
    /\ sockets[c].status = "idle"
    /\ \A d \in Conns : d < c => sockets[d].status # "idle"
    /\ sockets' = [sockets EXCEPT ![c] =
            IF AuthUser(token) = NoUser
            THEN [@ EXCEPT !.status = "rejected", !.token = token]
            ELSE [@ EXCEPT !.status = "open", !.token = token,
                           !.userId = AuthUser(token), !.setup = "updateUser"]]
    /\ wire' = {}
    /\ UNCHANGED <<relay, activeCalls, ops, now, activeUsers, typingUsers, rooms, users, chats, messages,
                   sends, restOps, received>>

\* resumes after `await User.findByIdAndUpdate(..., {isOnline: true, ...})`
ConnUpdateUser(c) ==
    /\ sockets[c].setup = "updateUser"
    /\ LET u == sockets[c].userId IN
        /\ users' = [users EXCEPT ![u] = [isOnline |-> TRUE, socketId |-> c]]
        /\ activeUsers' = (u :> c) @@ activeUsers
        /\ rooms' = [rooms EXCEPT ![UserRoom(u)] = @ \cup {c}]
    /\ sockets' = [sockets EXCEPT ![c].setup = "findChats"]
    /\ wire' = {}
    /\ UNCHANGED <<relay, activeCalls, ops, now, typingUsers, chats, messages, sends, restOps, received>>

\* resumes after `await Chat.find({participants: socket.userId})`
ConnFindChats(c) ==
    /\ sockets[c].setup = "findChats"
    /\ rooms' = [r \in RoomNames |->
                   IF \E ch \in ChatsOf(sockets[c].userId) : r = ChatRoom(ch)
                   THEN rooms[r] \cup {c} ELSE rooms[r]]
    /\ sockets' = [sockets EXCEPT ![c].setup = "findUser"]
    /\ wire' = {}
    /\ UNCHANGED <<relay, activeCalls, ops, now, activeUsers, typingUsers, users, chats, messages, sends,
                   restOps, received>>

\* resumes after `await User.findById(...).populate('contacts')`; the event
\* listeners of the socket are registered when the handler falls off the try.
\* The payload of online_users (the keys of activeUsers) is left out.
ConnFindUser(c) ==
    /\ sockets[c].setup = "findUser"
    /\ LET u == sockets[c].userId IN
         wire' = {Pkt(d, "user_status_change", u, "", 0, 0, TRUE) :
                     d \in UNION {IoTo(UserRoom(k)) : k \in Contacts(u)}}
                 \cup {Pkt(d, "online_users", "", "", 0, 0, FALSE) : d \in SocketEmit(c)}
    /\ sockets' = [sockets EXCEPT ![c].setup = "done"]
    /\ UNCHANGED <<relay, activeCalls, ops, now, activeUsers, typingUsers, rooms, users, chats, messages,
                   sends, restOps, received>>

\* the handlers of socket c are registered and its transport is open
Ready(c) == IsOpen(c) /\ sockets[c].setup = "done"

\* ---------------------------------------------------------------- disconnect
\* The transport closes: socket.io takes the socket out of every room and of
\* io.sockets.sockets, then calls the 'disconnect' listener if one is
\* registered; the listener runs up to its first await.
Disconnect(c) ==
    /\ IsOpen(c)
    /\ rooms' = [r \in RoomNames |-> rooms[r] \ {c}]
    /\ sockets' = [sockets EXCEPT ![c].status = "closed",
                                  ![c].cleanup = IF sockets[c].setup = "done"
                                                 THEN "updateUser" ELSE "none"]
    /\ wire' = {}
    /\ UNCHANGED <<relay, activeCalls, ops, now, activeUsers, typingUsers, users, chats, messages, sends,
                   restOps, received>>

RemoveKey(map, k) == [x \in DOMAIN map \ {k} |-> map[x]]

\* variant: leaves the typing sets as they are
WithTyper(typing, userId) == typing

\* typingUsers.forEach(users => users.delete(userId)): the table afterwards
WithoutTyper(typing, userId) == [ch \in DOMAIN typing |-> typing[ch] \ {userId}]

\* variant: the calls of a user that leaves are not announced
NoParticipantLeftPkts(userId) == {}

\* activeCalls.forEach(...): call_participant_left for every call that has
\* userId among its participants, written to the Room of the call's chat
ParticipantLeftPkts(userId) ==
    UNION {{PktData(d, "call_participant_left", userId, activeCalls[k].chatId,
                    0, <<k>>) :
               d \in IoTo(ChatRoom(activeCalls[k].chatId))} :
            k \in {x \in DOMAIN activeCalls :
                      userId \in Range(activeCalls[x].participants)}}

\* resumes after `await User.findByIdAndUpdate(..., {isOnline: false, ...})`
DiscUpdateUser(c) ==
    /\ sockets[c].cleanup = "updateUser"
    /\ LET u == sockets[c].userId IN
        /\ users' = [users EXCEPT ![u] = [isOnline |-> FALSE, socketId |-> NoSock]]
        /\ activeUsers' = RemoveKey(activeUsers, u)
        /\ typingUsers' = WithoutTyper(typingUsers, u)
        /\ wire' = UNION {{Pkt(d, "typing_stop", u, ch, 0, 0, FALSE) :
                              d \in IoTo(ChatRoom(ch))} :
                           ch \in {k \in DOMAIN typingUsers : u \in typingUsers[k]}}
                   \cup ParticipantLeftPkts(u)
    /\ sockets' = [sockets EXCEPT ![c].cleanup = "findUser"]
    /\ UNCHANGED <<relay, activeCalls, ops, now, rooms, chats, messages, sends, restOps, received>>

\* resumes after `await User.findById(...).populate('contacts')`
DiscFindUser(c) ==
    /\ sockets[c].cleanup = "findUser"
    /\ LET u == sockets[c].userId IN
         wire' = {Pkt(d, "user_status_change", u, "", 0, 0, FALSE) :
                     d \in UNION {IoTo(UserRoom(k)) : k \in Contacts(u)}}
    /\ sockets' = [sockets EXCEPT ![c].cleanup = "done"]
    /\ UNCHANGED <<relay, activeCalls, ops, now, activeUsers, typingUsers, rooms, users, chats, messages,
                   sends, restOps, received>>

\* ------------------------------------------------------------- chat events
\* socket.on('join_chat'): Chat.findById, then the participant test and the join
JoinChat(c, chatId) ==
    /\ Ready(c)
    /\ IF chatId \notin DOMAIN chats
       THEN /\ wire' = {Pkt(d, "error", "", chatId, 0, 0, FALSE) : d \in SocketEmit(c)}
            /\ UNCHANGED rooms
       ELSE IF ~IsParticipant(chats[chatId], sockets[c].userId)
       THEN /\ wire' = {Pkt(d, "error", "", chatId, 0, 0, FALSE) : d \in SocketEmit(c)}
            /\ UNCHANGED rooms
       ELSE /\ rooms' = [rooms EXCEPT ![ChatRoom(chatId)] = @ \cup {c}]
            /\ wire' = {Pkt(d, "joined_chat", "", chatId, 0, 0, TRUE) : d \in SocketEmit(c)}
    /\ UNCHANGED <<relay, activeCalls, ops, now, sockets, activeUsers, typingUsers, users, chats, messages,
                   sends, restOps, received>>

\* socket.on('leave_chat')
LeaveChat(c, chatId) ==
    /\ Ready(c)
    /\ rooms' = [rooms EXCEPT ![ChatRoom(chatId)] = @ \ {c}]
    /\ wire' = {Pkt(d, "left_chat", "", chatId, 0, 0, FALSE) : d \in SocketEmit(c)}
    /\ UNCHANGED <<relay, activeCalls, ops, now, sockets, activeUsers, typingUsers, users, chats, messages,
                   sends, restOps, received>>

\* the socket that `io.sockets.sockets.get(activeUsers.get(userId).socketId)`
\* yields, as a set: empty when the user has no entry or the socket is gone
SocketOfUser(userId) ==
    IF userId \in DOMAIN activeUsers
    THEN {activeUsers[userId]} \cap OpenSockets
    ELSE {}

\* socket.on('user_added_to_group')
UserAddedToGroup(c, chatId, userId) ==
    /\ Ready(c)
    /\ rooms' = [rooms EXCEPT ![ChatRoom(chatId)] = @ \cup SocketOfUser(userId)]
    /\ wire' = {Pkt(d, "group_updated", userId, chatId, 0, 0, TRUE) :
                   d \in (rooms'[ChatRoom(chatId)] \cap OpenSockets)}
    /\ UNCHANGED <<relay, activeCalls, ops, now, sockets, activeUsers, typingUsers, users, chats, messages,
                   sends, restOps, received>>

\* socket.on('user_removed_from_group')
UserRemovedFromGroup(c, chatId, userId) ==
    /\ Ready(c)
    /\ rooms' = [rooms EXCEPT ![ChatRoom(chatId)] = @ \ SocketOfUser(userId)]
    /\ wire' = {Pkt(d, "group_updated", userId, chatId, 0, 0, FALSE) :
                   d \in (rooms'[ChatRoom(chatId)] \cap OpenSockets)}
    /\ UNCHANGED <<relay, activeCalls, ops, now, sockets, activeUsers, typingUsers, users, chats, messages,
                   sends, restOps, received>>

\* ------------------------------------------------- REST: group participants
\* id of the system message written by the n-th participant request
SystemMessageId(n) == MaxSends + n

SystemMessage(id, chatId, sender) ==
    MessageDoc(id, chatId, sender, "system", "participants changed")

\* chatSchema.methods.removeParticipant: the document after the filters
WithoutParticipant(chat, userId) ==
    [chat EXCEPT !.participants = SelectSeq(@, LAMBDA id : id # userId),
                 !.admins = @ \ {userId}]

\* chatSchema.methods.addParticipant: the document after the push
WithParticipant(chat, userId) ==
    IF IsParticipant(chat, userId) THEN chat
    ELSE [chat EXCEPT !.participants = Append(@, userId)]

\* chatSchema.pre('save'): the document passes the validation
ValidChat(chat) ==
    IF chat.type = "private" THEN Len(chat.participants) = 2
    ELSE Len(chat.participants) >= 2

\* router.delete('/:chatId/participants/:userId'), requested by reqUser.
\* The socket layer is not told: no room changes.
RemoveParticipant(reqUser, chatId, userId) ==
    /\ restOps < MaxRest
    /\ chatId \in DOMAIN chats
    /\ chats[chatId].type = "group"
    /\ userId = reqUser \/ IsAdmin(chats[chatId], reqUser)
    /\ chats[chatId].creator # userId
    /\ userId \in Users
    /\ ValidChat(WithoutParticipant(chats[chatId], userId))
    /\ chats' = [chats EXCEPT ![chatId] = WithoutParticipant(@, userId)]
    /\ messages' = Append(messages,
                          SystemMessage(SystemMessageId(restOps + 1), chatId, reqUser))
    /\ restOps' = restOps + 1
    /\ wire' = {}
    /\ UNCHANGED <<relay, activeCalls, ops, now, sockets, activeUsers, typingUsers, rooms, users, sends, received>>

\* router.post('/:chatId/participants'), requested by reqUser
\* (settings.allowInvites keeps its default, true)
AddParticipant(reqUser, chatId, userId) ==
    /\ restOps < MaxRest
    /\ chatId \in DOMAIN chats
    /\ chats[chatId].type = "group"
    /\ userId \in Users
    /\ ~IsParticipant(chats[chatId], userId)
    /\ ValidChat(WithParticipant(chats[chatId], userId))
    /\ chats' = [chats EXCEPT ![chatId] = WithParticipant(@, userId)]
    /\ messages' = Append(messages,
                          SystemMessage(SystemMessageId(restOps + 1), chatId, reqUser))
    /\ restOps' = restOps + 1
    /\ wire' = {}
    /\ UNCHANGED <<relay, activeCalls, ops, now, sockets, activeUsers, typingUsers, rooms, users, sends, received>>

\* ------------------------------------------------------------ send_message
\* ids of the Message documents in the Store
StoredIds == {messages[i].id : i \in 1..Len(messages)}

\* the correlation id the client gives its t-th send (Date.now().toString())
TempId(t) == 10 * t

\* the first free handler slot
FreeSend(t) == sends[t].pc = "none" /\ \A k \in SendIds : k < t => sends[k].pc # "none"

\* the event arrives: the handler runs up to `await Chat.findById(chatId)`
SendMessage(c, chatId) ==
    /\ Ready(c)
    /\ \E t \in SendIds :
         /\ FreeSend(t)
         /\ sends' = [sends EXCEPT ![t] = [pc |-> "findChat", sock |-> c,
                                           chatId |-> chatId, tempId |-> TempId(t),
                                           chat |-> NoChat, todo |-> <<>>]]
    /\ wire' = {}
    /\ UNCHANGED <<relay, activeCalls, ops, now, sockets, activeUsers, typingUsers, rooms, users, chats,
                   messages, restOps, received>>

\* socket.emit('error', ...) of a validation failure: no tempId in the payload
ErrorPkts(c, chatId) == {Pkt(d, "error", "", chatId, 0, 0, FALSE) : d \in SocketEmit(c)}

\* the test of socketHandler.js:136-140: the sender may not post
AdminsOnlyDenied(chat, userId) ==
    chat.type = "group" /\ chat.onlyAdminsCanMessage /\ ~IsAdmin(chat, userId)

\* resumes after Chat.findById: access checks, `new Message`, message.save() called
SendFindChat(t) ==
    /\ sends[t].pc = "findChat"
    /\ LET c == sends[t].sock
           u == sockets[c].userId
           chatId == sends[t].chatId
           chat == IF chatId \in DOMAIN chats THEN chats[chatId] ELSE NoChat
       IN IF chatId \notin DOMAIN chats
             \/ ~IsParticipant(chat, u)
             \/ AdminsOnlyDenied(chat, u)
          THEN /\ sends' = [sends EXCEPT ![t].pc = "denied"]
               /\ wire' = ErrorPkts(c, chatId)
          ELSE /\ sends' = [sends EXCEPT ![t].pc = "saveMessage", ![t].chat = chat]
               /\ wire' = {}
    /\ UNCHANGED <<relay, activeCalls, ops, now, sockets, activeUsers, typingUsers, rooms, users, chats,
                   messages, restOps, received>>

\* resumes after `await message.save()`: the message is in the Store
SendSaveMessage(t) ==
    /\ sends[t].pc = "saveMessage"
    /\ messages' = Append(messages,
                          MessageDoc(t, sends[t].chatId,
                                     sockets[sends[t].sock].userId, "text", "hello"))
    /\ sends' = [sends EXCEPT ![t].pc = "saveChat"]
    /\ wire' = {}
    /\ UNCHANGED <<relay, activeCalls, ops, now, sockets, activeUsers, typingUsers, rooms, users, chats,
                   restOps, received>>

\* resumes after `await chat.save()`: only the modified paths are written
SendSaveChat(t) ==
    /\ sends[t].pc = "saveChat"
    /\ chats' = [chats EXCEPT ![sends[t].chatId].lastMessage = t]
    /\ sends' = [sends EXCEPT ![t].pc = "populate"]
    /\ wire' = {}
    /\ UNCHANGED <<relay, activeCalls, ops, now, sockets, activeUsers, typingUsers, rooms, users, messages,
                   restOps, received>>

\* variant: every participant but the sender, online or not
OtherParticipants(chat, userId) ==
    SelectSeq(chat.participants, LAMBDA p : p # userId)

\* chat.participants.filter(p => activeUsers.has(p) && p !== socket.userId)
OnlineParticipants(chat, userId) ==
    SelectSeq(chat.participants,
               LAMBDA p : p \in DOMAIN activeUsers /\ p # userId)

\* variant: socket.to(...) instead of io.to(...), which skips the sending socket
NewMessageToOthers(c, chatId) == SocketTo(c, ChatRoom(chatId))

\* io.to(`chat_${chatId}`).emit('new_message', message): the sockets written to
NewMessageTo(c, chatId) == IoTo(ChatRoom(chatId))

\* socket.emit('message_sent', { tempId, message }): the sockets written to
MessageSentTo(c) == SocketEmit(c)

\* the packets of lines 187-194 for handler t
BroadcastPkts(t) ==
    {Pkt(d, "new_message", sockets[sends[t].sock].userId, sends[t].chatId, t, 0, FALSE) :
        d \in NewMessageTo(sends[t].sock, sends[t].chatId)}
    \cup {Pkt(d, "message_sent", "", "", t, sends[t].tempId, TRUE) :
             d \in MessageSentTo(sends[t].sock)}

\* new_message for handler t arrives at the sockets it is written to
Arrive(t) ==
    [d \in Conns |->
       IF d \in NewMessageTo(sends[t].sock, sends[t].chatId)
       THEN Append(received[d], t) ELSE received[d]]

\* the typing_stop packets of lines 168-176
TypingStopPkts(t) ==
    IF sends[t].chatId \in DOMAIN typingUsers
    THEN {Pkt(d, "typing_stop", sockets[sends[t].sock].userId, sends[t].chatId,
              0, 0, FALSE) : d \in IoTo(ChatRoom(sends[t].chatId))}
    ELSE {}

\* resumes after `await message.populate(...)`: typing entry removed, the
\* online participants computed; with none of them the broadcast follows at once
SendPopulate(t) ==
    /\ sends[t].pc = "populate"
    /\ LET u == sockets[sends[t].sock].userId
           chatId == sends[t].chatId
           online == OnlineParticipants(sends[t].chat, u)
       IN /\ typingUsers' = IF chatId \in DOMAIN typingUsers
                            THEN [typingUsers EXCEPT ![chatId] = @ \ {u}]
                            ELSE typingUsers
          /\ IF online = <<>>
             THEN /\ sends' = [sends EXCEPT ![t].pc = "sent"]
                  /\ wire' = TypingStopPkts(t) \cup BroadcastPkts(t)
                  /\ received' = Arrive(t)
             ELSE /\ sends' = [sends EXCEPT ![t].pc = "markDelivered",
                                            ![t].todo = online]
                  /\ wire' = TypingStopPkts(t)
                  /\ UNCHANGED received
    /\ UNCHANGED <<relay, activeCalls, ops, now, sockets, activeUsers, rooms, users, chats, messages, restOps>>

\* messageSchema.methods.markAsDeliveredTo: the deliveredTo set after the call
MarkAsDeliveredTo(msg, userId) ==
    IF msg.sender = userId THEN msg
    ELSE IF userId \in msg.deliveredTo THEN msg
    ELSE [msg EXCEPT !.deliveredTo = @ \cup {userId}, !.v = @ + 1]

\* resumes after one `await message.markAsDeliveredTo(participantId)`; after
\* the last one the message is broadcast and acknowledged
SendMarkDelivered(t) ==
    /\ sends[t].pc = "markDelivered"
    /\ messages' = [i \in 1..Len(messages) |->
                      IF messages[i].id = t
                      THEN MarkAsDeliveredTo(messages[i], Head(sends[t].todo))
                      ELSE messages[i]]
    /\ IF Len(sends[t].todo) = 1
       THEN /\ sends' = [sends EXCEPT ![t].pc = "sent", ![t].todo = <<>>]
            /\ wire' = BroadcastPkts(t)
            /\ received' = Arrive(t)
       ELSE /\ sends' = [sends EXCEPT ![t].todo = Tail(@)]
            /\ wire' = {}
            /\ UNCHANGED received
    /\ UNCHANGED <<relay, activeCalls, ops, now, sockets, activeUsers, typingUsers, rooms, users, chats, restOps>>

\* ----------------------------------------------------------- message events
\* the Message documents the Store may hold before the relay starts
StoredId(n) == MaxSends + MaxRest + n

StoredMessages ==
    <<[MessageDoc(StoredId(1), "g", "u1", "text", "hello") EXCEPT
          !.reactions = <<[user |-> "u3", emoji |-> "E"]>>, !.v = 1],
      MessageDoc(StoredId(2), "g", "u1", "system", "participants changed"),
      MessageDoc(StoredId(3), "p", "u1", "text", "hello")>>

MsgIds == {StoredId(n) : n \in 1..Len(StoredMessages)}

\* the relay starts over a Store that holds messages; everyone may post in g
InitMsg == InitRelay /\ messages = StoredMessages /\ ~chats["g"].onlyAdminsCanMessage

\* Message.findById(id): the document, or null
FindMessage(id) ==
    IF \E i \in 1..Len(messages) : messages[i].id = id
    THEN messages[CHOOSE i \in 1..Len(messages) : messages[i].id = id]
    ELSE NoMessage

\* the Store after the document of doc.id was replaced by doc
WithMessage(doc) ==
    [i \in 1..Len(messages) |-> IF messages[i].id = doc.id THEN doc ELSE messages[i]]

\* the first free handler slot of the message events
FreeOp(o) == ops[o].pc = "none" /\ \A k \in OpIds : k < o => ops[k].pc # "none"

\* the handlers that had ended when a new event arrives
EndedOps == {k \in OpIds : ops[k].pc \in {"done", "failed"}}

\* the locals of a handler that has run up to its first await
NewOp(c, kind, msgId, chatId, arg, flag, ids) ==
    [NoOp EXCEPT !.pc = IF kind \in {"read", "call"} THEN "findChat" ELSE "find",
                 !.kind = kind, !.sock = c, !.msgId = msgId, !.chatId = chatId,
                 !.arg = arg, !.flag = flag, !.ids = ids, !.after = EndedOps]

\* socket.emit('error', { message }) of a message event
OpErrorPkts(o) ==
    {Pkt(d, "error", "", "", ops[o].msgId, 0, FALSE) : d \in SocketEmit(ops[o].sock)}

\* the handler ends with an error to its own socket; the Store is not written
OpFails(o) ==
    /\ ops' = [ops EXCEPT ![o].pc = "failed"]
    /\ wire' = OpErrorPkts(o)
    /\ UNCHANGED messages

\* the clock advances
Tick ==
    /\ now < MaxTime
    /\ now' = now + 1
    /\ wire' = {}
    /\ UNCHANGED <<relay, activeCalls, sockets, activeUsers, typingUsers, rooms, users, chats,
                   messages, sends, restOps, received, ops>>

\* ------------------------------------------------------------- edit_message
\* socket.on('edit_message') up to `await Message.findById(messageId)`
EditMessage(c, messageId, content) ==
    /\ Ready(c)
    /\ \E o \in OpIds :
         /\ FreeOp(o)
         /\ ops' = [ops EXCEPT ![o] = NewOp(c, "edit", messageId, NoChatId, content, FALSE, <<>>)]
    /\ wire' = {}
    /\ UNCHANGED <<relay, activeCalls, sockets, activeUsers, typingUsers, rooms, users, chats,
                   messages, sends, restOps, received, now>>

\* variant: the sender test is left out
EditContentThrowsUnlessOpen(msg, userId) == msg.deleted \/ msg.type = "system"

\* messageSchema.methods.editContent: one of its three throws is taken
EditContentThrows(msg, userId) ==
    msg.sender # userId \/ msg.deleted \/ msg.type = "system"

\* messageSchema.methods.editContent: the document after the assignments
EditContent(msg, newContent) ==
    [msg EXCEPT !.content = newContent, !.edited = TRUE, !.editedAt = now]

\* resumes after Message.findById: 'Message not found', or editContent runs
\* (it throws, or it changes the document and calls save)
EditFind(o) ==
    /\ ops[o].kind = "edit" /\ ops[o].pc = "find"
    /\ LET message == FindMessage(ops[o].msgId)
           u == sockets[ops[o].sock].userId
       IN IF message = NoMessage \/ EditContentThrows(message, u)
          THEN OpFails(o)
          ELSE /\ ops' = [ops EXCEPT ![o].pc = "save", ![o].read = message,
                                     ![o].doc = EditContent(message, ops[o].arg)]
               /\ wire' = {}
               /\ UNCHANGED messages
    /\ UNCHANGED <<relay, activeCalls, sockets, activeUsers, typingUsers, rooms, users, chats,
                   sends, restOps, received, now>>

\* resumes after `await message.editContent(...)`: save has written the
\* modified paths (content, edited, editedAt); message_edited goes to the room
EditSave(o) ==
    /\ ops[o].kind = "edit" /\ ops[o].pc = "save"
    /\ LET doc == ops[o].doc IN
        /\ messages' = WithMessage([FindMessage(doc.id) EXCEPT
                                       !.content = doc.content,
                                       !.edited = doc.edited,
                                       !.editedAt = doc.editedAt])
        /\ wire' = {PktData(d, "message_edited", "", doc.chat, doc.id,
                            <<doc.content, doc.editedAt>>) :
                       d \in IoTo(ChatRoom(doc.chat))}
    /\ ops' = [ops EXCEPT ![o].pc = "done"]
    /\ UNCHANGED <<relay, activeCalls, sockets, activeUsers, typingUsers, rooms, users, chats,
                   sends, restOps, received, now>>

\* ----------------------------------------------------------- delete_message
\* socket.on('delete_message') up to `await Message.findById(messageId)`
DeleteMessage(c, messageId, deleteForEveryone) ==
    /\ Ready(c)
    /\ \E o \in OpIds :
         /\ FreeOp(o)
         /\ ops' = [ops EXCEPT ![o] = NewOp(c, "delete", messageId, NoChatId, "",
                                            deleteForEveryone, <<>>)]
    /\ wire' = {}
    /\ UNCHANGED <<relay, activeCalls, sockets, activeUsers, typingUsers, rooms, users, chats,
                   messages, sends, restOps, received, now>>

\* variant: anyone may delete for everyone
DeleteMessageNeverThrows(msg, userId, deleteForEveryone) == FALSE

\* messageSchema.methods.deleteMessage: its throw is taken
DeleteMessageThrows(msg, userId, deleteForEveryone) ==
    deleteForEveryone /\ msg.sender # userId

\* variant: the user is pushed whether or not deletedFor holds it already
DeleteForMeAlways(msg, userId) ==
    [msg EXCEPT !.deletedFor = Append(@, userId)]

\* messageSchema.methods.deleteMessage, else branch: the document after it
DeleteForMe(msg, userId) ==
    IF userId \in Range(msg.deletedFor) THEN msg
    ELSE [msg EXCEPT !.deletedFor = Append(@, userId)]

\* messageSchema.methods.deleteMessage, if branch: the document after it
DeleteForEveryone(msg) ==
    [msg EXCEPT !.deleted = TRUE, !.deletedAt = now, !.content = Tombstone]

\* resumes after Message.findById: 'Message not found', or deleteMessage runs
\* (it throws, or it changes the document and calls save)
DeleteFind(o) ==
    /\ ops[o].kind = "delete" /\ ops[o].pc = "find"
    /\ LET message == FindMessage(ops[o].msgId)
           u == sockets[ops[o].sock].userId
       IN IF message = NoMessage \/ DeleteMessageThrows(message, u, ops[o].flag)
          THEN OpFails(o)
          ELSE /\ ops' = [ops EXCEPT
                    ![o].pc = "save", ![o].read = message,
                    ![o].doc = IF ops[o].flag THEN DeleteForEveryone(message)
                               ELSE DeleteForMe(message, u),
                    ![o].write = IF ops[o].flag THEN "set"
                                 ELSE IF DeleteForMe(message, u) = message
                                      THEN "none" ELSE "push"]
               /\ wire' = {}
               /\ UNCHANGED messages
    /\ UNCHANGED <<relay, activeCalls, sockets, activeUsers, typingUsers, rooms, users, chats,
                   sends, restOps, received, now>>

\* resumes after `await message.deleteMessage(...)`: save has written the
\* modified paths ($set of deleted, deletedAt and content, or $push to
\* deletedFor); message_deleted goes to the room, message_deleted_for_me to
\* the calling socket
DeleteSave(o) ==
    /\ ops[o].kind = "delete" /\ ops[o].pc = "save"
    /\ LET doc == ops[o].doc
           u == sockets[ops[o].sock].userId
       IN /\ messages' =
                IF ops[o].write = "set"
                THEN WithMessage([FindMessage(doc.id) EXCEPT
                                     !.deleted = doc.deleted,
                                     !.deletedAt = doc.deletedAt,
                                     !.content = doc.content])
                ELSE IF ops[o].write = "push"
                THEN WithMessage([FindMessage(doc.id) EXCEPT
                                     !.deletedFor = Append(@, u), !.v = @ + 1])
                ELSE messages
          /\ wire' = IF ops[o].flag
                     THEN {Pkt(d, "message_deleted", u, doc.chat, doc.id, 0, TRUE) :
                              d \in IoTo(ChatRoom(doc.chat))}
                     ELSE {Pkt(d, "message_deleted_for_me", "", "", doc.id, 0, FALSE) :
                              d \in SocketEmit(ops[o].sock)}
    /\ ops' = [ops EXCEPT ![o].pc = "done"]
    /\ UNCHANGED <<relay, activeCalls, sockets, activeUsers, typingUsers, rooms, users, chats,
                   sends, restOps, received, now>>

\* ----------------------------------------------------------------- reactions
Emojis == {"E", "F"}

\* socket.on('add_reaction') up to `await Message.findById(messageId)`
AddReaction(c, messageId, emoji) ==
    /\ Ready(c)
    /\ \E o \in OpIds :
         /\ FreeOp(o)
         /\ ops' = [ops EXCEPT ![o] = NewOp(c, "addReaction", messageId, NoChatId,
                                            emoji, FALSE, <<>>)]
    /\ wire' = {}
    /\ UNCHANGED <<relay, activeCalls, sockets, activeUsers, typingUsers, rooms, users, chats,
                   messages, sends, restOps, received, now>>

\* resumes after Message.findById: 'Message not found', or Chat.findById is called
AddReactionFind(o) ==
    /\ ops[o].kind = "addReaction" /\ ops[o].pc = "find"
    /\ IF FindMessage(ops[o].msgId) = NoMessage
       THEN OpFails(o)
       ELSE /\ ops' = [ops EXCEPT ![o].pc = "findChat",
                                  ![o].read = FindMessage(ops[o].msgId),
                                  ![o].chatId = FindMessage(ops[o].msgId).chat]
            /\ wire' = {}
            /\ UNCHANGED messages
    /\ UNCHANGED <<relay, activeCalls, sockets, activeUsers, typingUsers, rooms, users, chats,
                   sends, restOps, received, now>>

\* this.reactions.find(r => r.user.equals(userId)): the user has a reaction
HasReaction(msg, userId) == \E i \in 1..Len(msg.reactions) : msg.reactions[i].user = userId

\* the position of the reaction that find yields: the first one of the user
FirstReaction(msg, userId) ==
    CHOOSE i \in 1..Len(msg.reactions) :
        /\ msg.reactions[i].user = userId
        /\ \A j \in 1..(i - 1) : msg.reactions[j].user # userId

\* variant: pushes a reaction whether or not the user has one
AddReactionByPush(msg, userId, emoji) ==
    [msg EXCEPT !.reactions = Append(@, [user |-> userId, emoji |-> emoji])]

\* messageSchema.methods.addReaction: the document after the update or the push
AddReactionTo(msg, userId, emoji) ==
    IF HasReaction(msg, userId)
    THEN [msg EXCEPT !.reactions[FirstReaction(msg, userId)].emoji = emoji]
    ELSE [msg EXCEPT !.reactions = Append(@, [user |-> userId, emoji |-> emoji])]

\* resumes after Chat.findById(message.chat): 'Access denied', or addReaction
\* changes the document and calls save.  An element changed in place is
\* saved by position (under the version the document was read with), a new
\* element by $push.
AddReactionFindChat(o) ==
    /\ ops[o].kind = "addReaction" /\ ops[o].pc = "findChat"
    /\ LET u == sockets[ops[o].sock].userId
           new == AddReactionTo(ops[o].read, u, ops[o].arg)
       IN IF ~IsParticipant(chats[ops[o].chatId], u)
          THEN OpFails(o)
          ELSE /\ ops' = [ops EXCEPT
                    ![o].pc = "save", ![o].doc = new,
                    ![o].write = IF Len(new.reactions) > Len(ops[o].read.reactions)
                                 THEN "push" ELSE "where"]
               /\ wire' = {}
               /\ UNCHANGED messages
    /\ UNCHANGED <<relay, activeCalls, sockets, activeUsers, typingUsers, rooms, users, chats,
                   sends, restOps, received, now>>

\* resumes after `await message.addReaction(...)`: save has pushed the new
\* reaction, or has set the emoji at the position of the user's reaction, or
\* has thrown a VersionError because the array was rewritten since the read;
\* reaction_added carries the reactions of the handler's own document
AddReactionSave(o) ==
    /\ ops[o].kind = "addReaction" /\ ops[o].pc = "save"
    /\ LET doc == ops[o].doc
           stored == FindMessage(doc.id)
           u == sockets[ops[o].sock].userId
       IN IF ops[o].write = "where" /\ stored.v # ops[o].read.v
          THEN OpFails(o)
          ELSE /\ messages' =
                    IF ops[o].write = "push"
                    THEN WithMessage([stored EXCEPT
                            !.reactions = Append(@, doc.reactions[Len(doc.reactions)]),
                            !.v = @ + 1])
                    ELSE WithMessage([stored EXCEPT
                            !.reactions[FirstReaction(ops[o].read, u)].emoji = ops[o].arg])
               /\ wire' = {PktData(d, "reaction_added", u, doc.chat, doc.id,
                                   doc.reactions) : d \in IoTo(ChatRoom(doc.chat))}
               /\ ops' = [ops EXCEPT ![o].pc = "done"]
    /\ UNCHANGED <<relay, activeCalls, sockets, activeUsers, typingUsers, rooms, users, chats,
                   sends, restOps, received, now>>

\* socket.on('remove_reaction') up to `await Message.findById(messageId)`
RemoveReaction(c, messageId) ==
    /\ Ready(c)
    /\ \E o \in OpIds :
         /\ FreeOp(o)
         /\ ops' = [ops EXCEPT ![o] = NewOp(c, "removeReaction", messageId, NoChatId,
                                            "", FALSE, <<>>)]
    /\ wire' = {}
    /\ UNCHANGED <<relay, activeCalls, sockets, activeUsers, typingUsers, rooms, users, chats,
                   messages, sends, restOps, received, now>>

\* messageSchema.methods.removeReaction: the document after the filter
RemoveReactionFrom(msg, userId) ==
    [msg EXCEPT !.reactions = SelectSeq(@, LAMBDA r : r.user # userId)]

\* resumes after Message.findById: 'Message not found', or removeReaction
\* filters the array and calls save; no test of the caller's membership
RemoveReactionFind(o) ==
    /\ ops[o].kind = "removeReaction" /\ ops[o].pc = "find"
    /\ LET message == FindMessage(ops[o].msgId)
           u == sockets[ops[o].sock].userId
       IN IF message = NoMessage
          THEN OpFails(o)
          ELSE /\ ops' = [ops EXCEPT
                    ![o].pc = "save", ![o].read = message,
                    ![o].doc = RemoveReactionFrom(message, u),
                    ![o].write = IF RemoveReactionFrom(message, u) = message
                                 THEN "none" ELSE "array"]
               /\ wire' = {}
               /\ UNCHANGED messages
    /\ UNCHANGED <<relay, activeCalls, sockets, activeUsers, typingUsers, rooms, users, chats,
                   sends, restOps, received, now>>

\* resumes after `await message.removeReaction(...)`: save has written the
\* whole filtered array under the version the document was read with (or has
\* thrown a VersionError, or had nothing to write); reaction_removed carries
\* the reactions of the handler's own document
RemoveReactionSave(o) ==
    /\ ops[o].kind = "removeReaction" /\ ops[o].pc = "save"
    /\ LET doc == ops[o].doc
           stored == FindMessage(doc.id)
           u == sockets[ops[o].sock].userId
       IN IF ops[o].write = "array" /\ stored.v # ops[o].read.v
          THEN OpFails(o)
          ELSE /\ messages' =
                    IF ops[o].write = "array"
                    THEN WithMessage([stored EXCEPT !.reactions = doc.reactions,
                                                    !.v = @ + 1])
                    ELSE messages
               /\ wire' = {PktData(d, "reaction_removed", u, doc.chat, doc.id,
                                   doc.reactions) : d \in IoTo(ChatRoom(doc.chat))}
               /\ ops' = [ops EXCEPT ![o].pc = "done"]
    /\ UNCHANGED <<relay, activeCalls, sockets, activeUsers, typingUsers, rooms, users, chats,
                   sends, restOps, received, now>>

\* ------------------------------------------------------------- read receipts
\* the messageIds a client sends with mark_as_read; <<>> is the field left out
IdLists ==
    {<<>>, <<StoredId(1)>>, <<StoredId(1), StoredId(2)>>, <<StoredId(3), NoMsgId>>,
     <<StoredId(1), StoredId(1)>>}

\* socket.on('mark_as_read') up to `await Chat.findById(chatId)`
MarkAsRead(c, chatId, messageIds) ==
    /\ Ready(c)
    /\ \E o \in OpIds :
         /\ FreeOp(o)
         /\ ops' = [ops EXCEPT ![o] = NewOp(c, "read", NoMsgId, chatId, "", FALSE,
                                            messageIds)]
    /\ wire' = {}
    /\ UNCHANGED <<relay, activeCalls, sockets, activeUsers, typingUsers, rooms, users, chats,
                   messages, sends, restOps, received, now>>

\* socket.to(`chat_${chatId}`).emit('messages_read', {userId, chatId, messageIds})
MessagesReadPkts(o) ==
    {PktData(d, "messages_read", sockets[ops[o].sock].userId, ops[o].chatId, NoMsgId,
             ops[o].ids) : d \in SocketTo(ops[o].sock, ChatRoom(ops[o].chatId))}

\* resumes after Chat.findById: a silent return, or every Message.findById of
\* the Promise.all is called, or Message.markAllAsRead is called
ReadFindChat(o) ==
    /\ ops[o].kind = "read" /\ ops[o].pc = "findChat"
    /\ IF ops[o].chatId \notin DOMAIN chats
          \/ ~IsParticipant(IF ops[o].chatId \in DOMAIN chats
                            THEN chats[ops[o].chatId] ELSE NoChat,
                            sockets[ops[o].sock].userId)
       THEN ops' = [ops EXCEPT ![o].pc = "failed"]
       ELSE IF Len(ops[o].ids) > 0
       THEN ops' = [ops EXCEPT ![o].pc = "marking", ![o].todo = DOMAIN ops[o].ids]
       ELSE ops' = [ops EXCEPT ![o].pc = "markAll"]
    /\ wire' = {}
    /\ UNCHANGED <<relay, activeCalls, sockets, activeUsers, typingUsers, rooms, users, chats,
                   messages, sends, restOps, received, now>>

\* variant: pushes the reader whether or not readBy holds it already
MarkAsReadByAgain(msg, userId) ==
    IF msg.sender = userId THEN msg
    ELSE [msg EXCEPT !.readBy = Append(@, userId)]

\* messageSchema.methods.markAsReadBy: the document after the call
MarkAsReadBy(msg, userId) ==
    IF msg.sender = userId THEN msg
    ELSE IF userId \in Range(msg.readBy) THEN msg
    ELSE [msg EXCEPT !.readBy = Append(@, userId)]

\* the handler has emitted messages_read once no promise is pending
ReadEnds(o, todo, saving, marked) ==
    IF todo = {} /\ saving = {}
    THEN /\ ops' = [ops EXCEPT ![o].pc = "done", ![o].todo = todo,
                               ![o].saving = saving, ![o].marked = marked]
         /\ wire' = MessagesReadPkts(o)
    ELSE /\ ops' = [ops EXCEPT ![o].todo = todo, ![o].saving = saving,
                               ![o].marked = marked]
         /\ wire' = {}

\* one Message.findById(msgId) of the Promise.all resumes, the one of position
\* i of messageIds (todo and saving hold positions: an id named twice has two
\* promises): nothing to do for a missing message, for the reader's own
\* message and for a message already read; otherwise markAsReadBy has pushed
\* the reader and called save
ReadFindMessage(o, msgId) ==
    /\ ops[o].kind = "read" /\ ops[o].pc = "marking"
    /\ \E i \in ops[o].todo :
         /\ ops[o].ids[i] = msgId
         /\ LET message == FindMessage(msgId)
                u == sockets[ops[o].sock].userId
            IN IF /\ message # NoMessage
                  /\ message.sender # u
                  /\ MarkAsReadBy(message, u) # message
               THEN ReadEnds(o, ops[o].todo \ {i}, ops[o].saving \cup {i},
                             ops[o].marked)
               ELSE ReadEnds(o, ops[o].todo \ {i}, ops[o].saving, ops[o].marked)
    /\ UNCHANGED <<relay, activeCalls, sockets, activeUsers, typingUsers, rooms, users, chats,
                   messages, sends, restOps, received, now>>

\* one `await message.markAsReadBy(...)` resumes: save has pushed the reader
ReadSaveMessage(o, msgId) ==
    /\ ops[o].kind = "read" /\ ops[o].pc = "marking"
    /\ messages' = WithMessage([FindMessage(msgId) EXCEPT
                                   !.readBy = Append(@, sockets[ops[o].sock].userId),
                                   !.v = @ + 1])
    /\ \E i \in ops[o].saving :
         /\ ops[o].ids[i] = msgId
         /\ ReadEnds(o, ops[o].todo, ops[o].saving \ {i}, ops[o].marked \cup {msgId})
    /\ UNCHANGED <<relay, activeCalls, sockets, activeUsers, typingUsers, rooms, users, chats,
                   sends, restOps, received, now>>

\* variant: the sender test of the filter is left out
MarkAllMatchesOwn(msg, chatId, userId) ==
    msg.chat = chatId /\ userId \notin Range(msg.readBy) /\ ~msg.deleted

\* the filter of messageSchema.statics.markAllAsRead
MarkAllMatches(msg, chatId, userId) ==
    /\ msg.chat = chatId
    /\ msg.sender # userId
    /\ userId \notin Range(msg.readBy)
    /\ ~msg.deleted

\* resumes after `await Message.markAllAsRead(chatId, userId)`: updateMany
\* has pushed the reader to every matching message
ReadMarkAll(o) ==
    /\ ops[o].kind = "read" /\ ops[o].pc = "markAll"
    /\ LET u == sockets[ops[o].sock].userId IN
        /\ messages' = [i \in 1..Len(messages) |->
                          IF MarkAllMatches(messages[i], ops[o].chatId, u)
                          THEN [messages[i] EXCEPT !.readBy = Append(@, u)]
                          ELSE messages[i]]
        /\ ops' = [ops EXCEPT
                     ![o].pc = "done",
                     ![o].marked = {messages[i].id : i \in
                                       {j \in 1..Len(messages) :
                                          MarkAllMatches(messages[j], ops[o].chatId, u)}}]
    /\ wire' = MessagesReadPkts(o)
    /\ UNCHANGED <<relay, activeCalls, sockets, activeUsers, typingUsers, rooms, users, chats,
                   sends, restOps, received, now>>

\* ------------------------------------------------------- specifications
\* ------------------------------------------------------------ typing events
\* typingUsers.get(chatId) as a set: empty when the chat has no entry
TypingIn(chatId) == IF chatId \in DOMAIN typingUsers THEN typingUsers[chatId] ELSE {}

\* socket.on('typing_start'); the socket remembers the announcement until it
\* sends typing_stop for the chat
TypingStart(c, chatId) ==
    /\ Ready(c)
    /\ typingUsers' = (chatId :> (TypingIn(chatId) \cup {sockets[c].userId}))
                      @@ typingUsers
    /\ wire' = {Pkt(d, "typing_start", sockets[c].userId, chatId, 0, 0, TRUE) :
                   d \in SocketTo(c, ChatRoom(chatId))}
    /\ sockets' = [sockets EXCEPT ![c].typing = @ \cup {chatId}]
    /\ UNCHANGED <<relay, activeCalls, ops, now, activeUsers, rooms, users, chats, messages,
                   sends, restOps, received>>

\* socket.on('typing_stop'): nothing is done for a chat without an entry
TypingStop(c, chatId) ==
    /\ Ready(c)
    /\ IF chatId \in DOMAIN typingUsers
       THEN /\ typingUsers' = [typingUsers EXCEPT ![chatId] = @ \ {sockets[c].userId}]
            /\ wire' = {Pkt(d, "typing_stop", sockets[c].userId, chatId, 0, 0, FALSE) :
                           d \in SocketTo(c, ChatRoom(chatId))}
       ELSE /\ wire' = {}
            /\ UNCHANGED typingUsers
    /\ sockets' = [sockets EXCEPT ![c].typing = @ \ {chatId}]
    /\ UNCHANGED <<relay, activeCalls, ops, now, activeUsers, rooms, users, chats, messages,
                   sends, restOps, received>>

\* the setInterval callback: users without an activeUsers entry are taken out
\* of every typing set; nothing is emitted
TypingCleanup ==
    /\ typingUsers' = [ch \in DOMAIN typingUsers |->
                         typingUsers[ch] \cap DOMAIN activeUsers]
    /\ wire' = {}
    /\ UNCHANGED <<relay, activeCalls, ops, now, sockets, activeUsers, rooms, users, chats,
                   messages, sends, restOps, received>>

\* -------------------------------------------------------------- call events
\* the callIds that clients put into call_initiate
CallIds == {"k1"}
\* a callId that no call_initiate has carried
NoCallId == "k0"

\* the record call_initiate stores; callType is left out
CallRecord(chatId, initiator) ==
    [chatId |-> chatId, initiator |-> initiator, participants |-> <<initiator>>,
     startTime |-> now]

\* socket.on('call_initiate') up to `await Chat.findById(chatId)`
CallInitiate(c, chatId, callId) ==
    /\ Ready(c)
    /\ \E o \in OpIds :
         /\ FreeOp(o)
         /\ ops' = [ops EXCEPT ![o] = NewOp(c, "call", NoMsgId, chatId, callId,
                                            FALSE, <<>>)]
    /\ wire' = {}
    /\ UNCHANGED <<relay, activeCalls, sockets, activeUsers, typingUsers, rooms, users, chats,
                   messages, sends, restOps, received, now>>

\* resumes after Chat.findById: the participant test, then the call is stored
\* under its callId and call_incoming is emitted with socket.to(chat room)
CallFindChat(o) ==
    /\ ops[o].kind = "call" /\ ops[o].pc = "findChat"
    /\ LET c == ops[o].sock
           u == sockets[c].userId
           chatId == ops[o].chatId
           callId == ops[o].arg
       IN IF chatId \notin DOMAIN chats
          THEN OpFails(o) /\ UNCHANGED activeCalls
          ELSE IF ~IsParticipant(chats[chatId], u)
          THEN OpFails(o) /\ UNCHANGED activeCalls
          ELSE /\ activeCalls' = (callId :> CallRecord(chatId, u)) @@ activeCalls
               /\ ops' = [ops EXCEPT ![o].pc = "done"]
               /\ wire' = {PktData(d, "call_incoming", u, chatId, 0, <<callId>>) :
                              d \in SocketTo(c, ChatRoom(chatId))}
               /\ UNCHANGED messages
    /\ UNCHANGED <<relay, sockets, activeUsers, typingUsers, rooms, users, chats, sends,
                   restOps, received, now>>

\* socket.on('webrtc_offer'); the offer itself is left out of the packet
WebrtcOffer(c, targetUserId, callId) ==
    /\ Ready(c)
    /\ wire' = {PktData(d, "webrtc_offer", sockets[c].userId, "", 0, <<callId>>) :
                   d \in IoTo(UserRoom(targetUserId))}
    /\ UNCHANGED <<relay, activeCalls, ops, now, sockets, activeUsers, typingUsers, rooms,
                   users, chats, messages, sends, restOps, received>>

\* socket.on('webrtc_answer'); the answer itself is left out of the packet
WebrtcAnswer(c, targetUserId, callId) ==
    /\ Ready(c)
    /\ wire' = {PktData(d, "webrtc_answer", sockets[c].userId, "", 0, <<callId>>) :
                   d \in IoTo(UserRoom(targetUserId))}
    /\ UNCHANGED <<relay, activeCalls, ops, now, sockets, activeUsers, typingUsers, rooms,
                   users, chats, messages, sends, restOps, received>>

\* socket.on('webrtc_ice_candidate'); the candidate is left out of the packet
WebrtcIceCandidate(c, targetUserId, callId) ==
    /\ Ready(c)
    /\ wire' = {PktData(d, "webrtc_ice_candidate", sockets[c].userId, "", 0,
                        <<callId>>) : d \in IoTo(UserRoom(targetUserId))}
    /\ UNCHANGED <<relay, activeCalls, ops, now, sockets, activeUsers, typingUsers, rooms,
                   users, chats, messages, sends, restOps, received>>

\* lines 457-462: the call table after call_response
Respond(calls, callId, accepted, userId) ==
    IF accepted /\ callId \in DOMAIN calls
    THEN [calls EXCEPT ![callId].participants = Append(@, userId)]
    ELSE calls

\* socket.on('call_response'); the flag of the packet is `accepted`
CallResponse(c, callId, accepted, targetUserId) ==
    /\ Ready(c)
    /\ (accepted /\ callId \in DOMAIN activeCalls)
       => Len(activeCalls[callId].participants) < MaxParts
    /\ activeCalls' = Respond(activeCalls, callId, accepted, sockets[c].userId)
    /\ wire' = {[PktData(d, "call_response", sockets[c].userId, "", 0, <<callId>>)
                    EXCEPT !.flag = accepted] : d \in IoTo(UserRoom(targetUserId))}
    /\ UNCHANGED <<relay, ops, now, sockets, activeUsers, typingUsers, rooms, users, chats,
                   messages, sends, restOps, received>>

\* variant: keeps the record
EndCallNever(calls, callId) == calls

\* lines 480-483: the call table after call_end
EndCall(calls, callId) ==
    IF callId \in DOMAIN calls THEN RemoveKey(calls, callId) ELSE calls

\* socket.on('call_end')
CallEnd(c, callId, chatId) ==
    /\ Ready(c)
    /\ activeCalls' = EndCall(activeCalls, callId)
    /\ wire' = {PktData(d, "call_ended", sockets[c].userId, chatId, 0, <<callId>>) :
                   d \in SocketTo(c, ChatRoom(chatId))}
    /\ UNCHANGED <<relay, ops, now, sockets, activeUsers, typingUsers, rooms, users, chats,
                   messages, sends, restOps, received>>

\* Presence and rooms: connects with any token, disconnects, room events and
\* participant requests.
Next ==
    \/ \E c \in Conns, token \in ValidTokens : Connect(c, token)
    \/ \E c \in Conns : ConnUpdateUser(c)
    \/ \E c \in Conns : ConnFindChats(c)
    \/ \E c \in Conns : ConnFindUser(c)
    \/ \E c \in Conns : Disconnect(c)
    \/ \E c \in Conns : DiscUpdateUser(c)
    \/ \E c \in Conns : DiscFindUser(c)
    \/ \E c \in Conns, chatId \in ChatIds \cup {NoChatId} : JoinChat(c, chatId)
    \/ \E c \in Conns, chatId \in ChatIds : LeaveChat(c, chatId)
    \/ \E c \in Conns, chatId \in ChatIds, userId \in Clients :
          UserAddedToGroup(c, chatId, userId)
    \/ \E c \in Conns, chatId \in ChatIds, userId \in Clients :
          UserRemovedFromGroup(c, chatId, userId)
    \/ \E chatId \in ChatIds, userId \in Users :
          RemoveParticipant("u1", chatId, userId)
    \/ \E chatId \in ChatIds, userId \in Users :
          AddParticipant("u1", chatId, userId)

Spec == Init /\ [][Next]_vars

\* Messaging: clients with valid tokens connect, leave rooms and send messages
\* while a participant is removed.
NextSend ==
    \/ \E c \in Conns, token \in ValidTokens : Connect(c, token)
    \/ \E c \in Conns : ConnUpdateUser(c)
    \/ \E c \in Conns : ConnFindChats(c)
    \/ \E c \in Conns : ConnFindUser(c)
    \/ \E c \in Conns : LeaveChat(c, "g")
    \/ \E chatId \in ChatIds, userId \in Clients :
          RemoveParticipant("u1", chatId, userId)
    \/ \E c \in Conns, chatId \in ChatIds : SendMessage(c, chatId)
    \/ \E t \in SendIds : SendFindChat(t)
    \/ \E t \in SendIds : SendSaveMessage(t)
    \/ \E t \in SendIds : SendSaveChat(t)
    \/ \E t \in SendIds : SendPopulate(t)
    \/ \E t \in SendIds : SendMarkDelivered(t)

SpecSend == Init /\ [][NextSend]_vars


\* Handshake: connects with any token, disconnects, join_chat and leave_chat.
NextAuth ==
    \/ \E c \in Conns, token \in Tokens : Connect(c, token)
    \/ \E c \in Conns : ConnUpdateUser(c)
    \/ \E c \in Conns : ConnFindChats(c)
    \/ \E c \in Conns : ConnFindUser(c)
    \/ \E c \in Conns : Disconnect(c)
    \/ \E c \in Conns : DiscUpdateUser(c)
    \/ \E c \in Conns : DiscFindUser(c)
    \/ \E c \in Conns, chatId \in ChatIds \cup {NoChatId} : JoinChat(c, chatId)
    \/ \E c \in Conns, chatId \in ChatIds : LeaveChat(c, chatId)

SpecAuth == Init /\ [][NextAuth]_vars

\* Editing and deleting: clients with valid tokens connect and edit or delete
\* stored messages while the clock advances.
NextEdit ==
    \/ \E c \in Conns, token \in ValidTokens : Connect(c, token)
    \/ \E c \in Conns : ConnUpdateUser(c)
    \/ \E c \in Conns : ConnFindChats(c)
    \/ \E c \in Conns : ConnFindUser(c)
    \/ Tick
    \/ \E c \in Conns, messageId \in MsgIds \cup {NoMsgId} :
          EditMessage(c, messageId, "edited")
    \/ \E o \in OpIds : EditFind(o)
    \/ \E o \in OpIds : EditSave(o)
    \/ \E c \in Conns, messageId \in MsgIds \cup {NoMsgId}, deleteForEveryone \in BOOLEAN :
          DeleteMessage(c, messageId, deleteForEveryone)
    \/ \E o \in OpIds : DeleteFind(o)
    \/ \E o \in OpIds : DeleteSave(o)

SpecEdit == InitMsg /\ [][NextEdit]_vars

\* Reactions: clients with valid tokens connect and add or remove reactions
\* on stored messages.
NextReact ==
    \/ \E c \in Conns, token \in ValidTokens : Connect(c, token)
    \/ \E c \in Conns : ConnUpdateUser(c)
    \/ \E c \in Conns : ConnFindChats(c)
    \/ \E c \in Conns : ConnFindUser(c)
    \/ \E c \in Conns, messageId \in MsgIds \cup {NoMsgId}, emoji \in Emojis :
          AddReaction(c, messageId, emoji)
    \/ \E o \in OpIds : AddReactionFind(o)
    \/ \E o \in OpIds : AddReactionFindChat(o)
    \/ \E o \in OpIds : AddReactionSave(o)
    \/ \E c \in Conns, messageId \in MsgIds \cup {NoMsgId} : RemoveReaction(c, messageId)
    \/ \E o \in OpIds : RemoveReactionFind(o)
    \/ \E o \in OpIds : RemoveReactionSave(o)

SpecReact == InitMsg /\ [][NextReact]_vars

\* Read receipts: clients with valid tokens connect and mark messages as read.
NextRead ==
    \/ \E c \in Conns, token \in ValidTokens : Connect(c, token)
    \/ \E c \in Conns : ConnUpdateUser(c)
    \/ \E c \in Conns : ConnFindChats(c)
    \/ \E c \in Conns : ConnFindUser(c)
    \/ \E c \in Conns, chatId \in ChatIds \cup {NoChatId}, messageIds \in IdLists :
          MarkAsRead(c, chatId, messageIds)
    \/ \E o \in OpIds : ReadFindChat(o)
    \/ \E o \in OpIds, msgId \in MsgIds \cup {NoMsgId} : ReadFindMessage(o, msgId)
    \/ \E o \in OpIds, msgId \in MsgIds : ReadSaveMessage(o, msgId)
    \/ \E o \in OpIds : ReadMarkAll(o)

SpecRead == InitMsg /\ [][NextRead]_vars

\* Typing indicators: clients with valid tokens connect, announce and revoke
\* typing and disconnect, and the cleanup timer fires.
NextTyping ==
    \/ \E c \in Conns, token \in ValidTokens : Connect(c, token)
    \/ \E c \in Conns : ConnUpdateUser(c)
    \/ \E c \in Conns : ConnFindChats(c)
    \/ \E c \in Conns : ConnFindUser(c)
    \/ \E c \in Conns : Disconnect(c)
    \/ \E c \in Conns : DiscUpdateUser(c)
    \/ \E c \in Conns : DiscFindUser(c)
    \/ \E c \in Conns, chatId \in ChatIds : TypingStart(c, chatId)
    \/ \E c \in Conns, chatId \in ChatIds : TypingStop(c, chatId)
    \/ TypingCleanup

SpecTyping == Init /\ [][NextTyping]_vars

\* The same with the scheduling of the event loop: every await of a
\* connection or disconnect handler is answered and the timer keeps firing.
\* Nothing obliges a client to send an event or to disconnect.
FairTyping ==
    /\ WF_vars(TypingCleanup)
    /\ \A c \in Conns :
          /\ WF_vars(ConnUpdateUser(c))
          /\ WF_vars(ConnFindChats(c))
          /\ WF_vars(ConnFindUser(c))
          /\ WF_vars(DiscUpdateUser(c))
          /\ WF_vars(DiscFindUser(c))

SpecTypingLive == Init /\ [][NextTyping]_vars /\ FairTyping

\* Calls: clients with valid tokens connect, start, answer and end calls and
\* exchange signaling payloads; a target is a client or the user u3, who has
\* no connection.
NextCall ==
    \/ \E c \in Conns, token \in ValidTokens : Connect(c, token)
    \/ \E c \in Conns : ConnUpdateUser(c)
    \/ \E c \in Conns : ConnFindChats(c)
    \/ \E c \in Conns : ConnFindUser(c)
    \/ \E c \in Conns, chatId \in ChatIds \cup {NoChatId}, callId \in CallIds :
          CallInitiate(c, chatId, callId)
    \/ \E o \in OpIds : CallFindChat(o)
    \/ \E c \in Conns, targetUserId \in Clients \cup {"u3"}, callId \in CallIds \cup {NoCallId} :
          WebrtcOffer(c, targetUserId, callId)
    \/ \E c \in Conns, targetUserId \in Clients \cup {"u3"}, callId \in CallIds \cup {NoCallId} :
          WebrtcAnswer(c, targetUserId, callId)
    \/ \E c \in Conns, targetUserId \in Clients \cup {"u3"}, callId \in CallIds \cup {NoCallId} :
          WebrtcIceCandidate(c, targetUserId, callId)
    \/ \E c \in Conns, callId \in CallIds \cup {NoCallId}, accepted \in BOOLEAN,
             targetUserId \in Clients \cup {"u3"} :
          CallResponse(c, callId, accepted, targetUserId)
    \/ \E c \in Conns, callId \in CallIds \cup {NoCallId}, chatId \in ChatIds :
          CallEnd(c, callId, chatId)

SpecCall == Init /\ [][NextCall]_vars

\* The call table: the events that read or write activeCalls, without the
\* signaling handlers, which never touch it.
NextCallTable ==
    \/ \E c \in Conns, token \in ValidTokens : Connect(c, token)
    \/ \E c \in Conns : ConnUpdateUser(c)
    \/ \E c \in Conns : ConnFindChats(c)
    \/ \E c \in Conns : ConnFindUser(c)
    \/ \E c \in Conns, chatId \in ChatIds \cup {NoChatId}, callId \in CallIds :
          CallInitiate(c, chatId, callId)
    \/ \E o \in OpIds : CallFindChat(o)
    \/ \E c \in Conns, callId \in CallIds \cup {NoCallId}, accepted \in BOOLEAN,
             targetUserId \in Clients \cup {"u3"} :
          CallResponse(c, callId, accepted, targetUserId)
    \/ \E c \in Conns, callId \in CallIds \cup {NoCallId}, chatId \in ChatIds :
          CallEnd(c, callId, chatId)

SpecCallTable == Init /\ [][NextCallTable]_vars

\* The call table under churn: the events that read or write activeCalls
\* while connections close.
NextCallDisc ==
    \/ \E c \in Conns, token \in ValidTokens : Connect(c, token)
    \/ \E c \in Conns : ConnUpdateUser(c)
    \/ \E c \in Conns : ConnFindChats(c)
    \/ \E c \in Conns : ConnFindUser(c)
    \/ \E c \in Conns : Disconnect(c)
    \/ \E c \in Conns : DiscUpdateUser(c)
    \/ \E c \in Conns : DiscFindUser(c)
    \/ \E c \in Conns, chatId \in ChatIds, callId \in CallIds :
          CallInitiate(c, chatId, callId)
    \/ \E o \in OpIds : CallFindChat(o)
    \/ \E c \in Conns, callId \in CallIds : CallResponse(c, callId, TRUE, "u1")
    \/ \E c \in Conns, callId \in CallIds, chatId \in ChatIds :
          CallEnd(c, callId, chatId)

SpecCallDisc == Init /\ [][NextCallDisc]_vars

\* ======================================================================
\* Properties
\* ======================================================================

\* sockets of identity u whose transport is open
LiveSockets(u) == {c \in Conns : sockets[c].status = "open" /\ sockets[c].userId = u}

\* no connection handler and no disconnect handler is under way, and every
\* closed socket has run its disconnect handler
Settled ==
    \A c \in Conns :
        \/ sockets[c].status \in {"idle", "rejected"}
        \/ sockets[c].status = "open" /\ sockets[c].setup = "done"
        \/ sockets[c].status = "closed" /\ sockets[c].cleanup = "done"

\* C1: whenever no connect or disconnect is under way, an identity is in the
\* presence table (activeUsers) if and only if it has at least one live
\* connection.  Fails: the disconnect of one of two connections of an identity
\* deletes the identity's entry.
C1_OnlineIffLive ==
    Settled => \A u \in Users : (u \in DOMAIN activeUsers) <=> (LiveSockets(u) # {})

\* C2: a socket is subscribed to the room of chat C only at a moment when its
\* identity is a participant of C in the Store.  Fails: user_added_to_group
\* subscribes the named user's socket without looking at the Store.
C2_SubscribedOnlyAsParticipant ==
    [][\A c \in Conns, ch \in ChatIds :
          (c \notin rooms[ChatRoom(ch)] /\ c \in rooms'[ChatRoom(ch)])
             => sockets[c].userId \in Range(chats'[ch].participants)]_vars

\* position of a stored message in the Store's order
StorePos(id) == CHOOSE i \in 1..Len(messages) : messages[i].id = id

\* C3: every socket receives the new_message packets of a chat in the order in
\* which the Store persisted the messages.  Fails: a handler that saved later
\* may finish its remaining awaits, and broadcast, first.
C3_BroadcastInStoreOrder ==
    \A c \in Conns : \A i, j \in 1..Len(received[c]) :
        (i < j /\ messages[StorePos(received[c][i])].chat
                     = messages[StorePos(received[c][j])].chat)
           => StorePos(received[c][i]) < StorePos(received[c][j])

\* a token the handshake must refuse: absent, bad signature, expired, or
\* naming no User document
BadToken(tk) == tk.kind # "valid" \/ tk.userId \notin Users

\* socket c appears nowhere in the relay's state
Unregistered(c) ==
    /\ \A r \in RoomNames : c \notin rooms[r]
    /\ \A u \in DOMAIN activeUsers : activeUsers[u] # c
    /\ \A u \in Users : users[u].socketId # c
    /\ \A t \in SendIds : sends[t].sock # c
    /\ \A p \in wire : p.to # c

\* C4: a connection with a bad token is rejected: its handshake step changes
\* neither the presence table, the rooms nor the Store, the connection handler
\* never runs for it, and it never appears in the relay's state.
C4_BadTokenRejected ==
    [][\A c \in Conns :
          (sockets'[c].status # "idle" /\ BadToken(sockets'[c].token))
             => /\ sockets'[c].status = "rejected"
                /\ sockets'[c].setup = "none" /\ sockets'[c].cleanup = "none"
                /\ sockets'[c].userId = NoUser
                /\ Unregistered(c)'
                /\ (sockets[c].status = "idle"
                       => UNCHANGED <<activeUsers, rooms, users, chats, messages,
                                      typingUsers, sends, received>>)]_vars

\* C4 witness: a handshake with an expired token was rejected while another
\* connection is registered and subscribed
C4_Witness ==
    \E c, d \in Conns :
        /\ sockets[c].status = "rejected" /\ sockets[c].token.kind = "expired"
        /\ sockets[d].status = "open" /\ sockets[d].setup = "done"
        /\ d \in rooms[ChatRoom("g")]
        /\ sockets[d].userId \in DOMAIN activeUsers

\* handler t ends in this step without having sent
SendFails(t) ==
    sends[t].pc \notin {"none", "sent", "denied"} /\ sends'[t].pc = "denied"

\* C5: when send_message fails because the sender is not a member of the chat,
\* the originating socket (and no other) gets an error that carries the
\* send's tempId, and nothing is broadcast.  Fails: the error event of the
\* access check carries no tempId.
C5_ErrorKeyedByTempId ==
    [][\A t \in SendIds :
          (/\ SendFails(t)
           /\ sends[t].chatId \in DOMAIN chats
           /\ sockets[sends[t].sock].userId
                 \notin Range(chats[sends[t].chatId].participants))
          => /\ wire' # {}
             /\ \A p \in wire' : /\ p.to = sends[t].sock
                                 /\ p.ev # "new_message"
                                 /\ p.tempId = sends[t].tempId
             /\ received' = received]_vars

\* handler t broadcasts and acknowledges in this step
SendCompletes(t) == sends[t].pc # "sent" /\ sends'[t].pc = "sent"

\* the sockets a packet of event ev about message t was written to in this step
WrittenTo(ev, t) == {p.to : p \in {q \in wire' : q.ev = ev /\ q.msg = t}}

\* C6: on a successful send, new_message is written to exactly the connected
\* sockets subscribed to the chat's room (the sender's sockets included) and
\* arrives there, and message_sent, with the send's tempId, to the originating
\* socket only.
C6_BroadcastAndAck ==
    [][\A t \in SendIds :
          SendCompletes(t) =>
             LET room == {d \in rooms[ChatRoom(sends[t].chatId)] :
                             sockets[d].status = "open"}
             IN /\ WrittenTo("new_message", t) = room
                /\ \A d \in Conns :
                      received'[d] = IF d \in room THEN Append(received[d], t)
                                     ELSE received[d]
                /\ WrittenTo("message_sent", t)
                      = {d \in {sends[t].sock} : sockets[d].status = "open"}
                /\ \A p \in wire' :
                      p.ev = "message_sent" => p.tempId = sends[t].tempId]_vars

\* C6 witness: a send completed; new_message went to the sender's socket and to
\* another socket of the sender's identity, message_sent to the sender's socket only
C6_Witness ==
    \E t \in SendIds : \E p, q, r \in wire :
        /\ sends[t].pc = "sent"
        /\ p.ev = "new_message" /\ p.msg = t /\ p.to # sends[t].sock
        /\ sockets[p.to].userId = sockets[sends[t].sock].userId
        /\ q.ev = "message_sent" /\ q.msg = t /\ q.to = sends[t].sock
        /\ q.tempId = sends[t].tempId
        /\ r.ev = "new_message" /\ r.msg = t /\ r.to = sends[t].sock

\* C7: a disconnect marks the identity offline in the Store, and tells its
\* contacts so, only when no other connection of the identity is up.  Fails:
\* the disconnect handler never looks for other connections.
C7_OfflineOnlyOnLastDisconnect ==
    [][\A u \in Users :
          (\/ users[u].isOnline /\ ~users'[u].isOnline
           \/ \E p \in wire' : p.ev = "user_status_change" /\ p.user = u /\ ~p.flag)
          => \A c \in Conns :
                ~(sockets'[c].status = "open" /\ sockets'[c].setup = "done"
                  /\ sockets'[c].userId = u)]_vars

\* C8: a message whose handler read the chat after a participant was removed
\* is not delivered to the removed identity's sockets: new_message goes only
\* to sockets of identities in the participant list the handler read.  Fails:
\* the REST routes never touch the rooms.
C8_MembershipPropagates ==
    [][\A t \in SendIds :
          SendCompletes(t) =>
             \A d \in WrittenTo("new_message", t) :
                 sockets[d].userId \in Range(sends[t].chat.participants)]_vars

\* handler t passes the access checks in this step
SendAccepted(t) == sends[t].pc = "findChat" /\ sends'[t].pc = "saveMessage"

NoTrace(t) ==
    /\ \A i \in 1..Len(messages) : messages[i].id # t
    /\ \A c \in Conns : \A i \in 1..Len(received[c]) : received[c][i] # t
    /\ \A p \in wire : ~(p.ev \in {"new_message", "message_sent"} /\ p.msg = t)

\* C10: when the handler reads a group chat with onlyAdminsCanMessage set, a
\* participant that is not an admin is refused, and of a refused send no
\* message is ever stored or broadcast; a participant that is an admin is
\* accepted.
C10_OnlyAdminsCanMessage ==
    [][\A t \in SendIds :
          /\ (/\ sends[t].pc = "findChat" /\ sends'[t].pc # "findChat"
              /\ sends[t].chatId \in ChatIds
              /\ chats[sends[t].chatId].type = "group"
              /\ chats[sends[t].chatId].onlyAdminsCanMessage
              /\ sockets[sends[t].sock].userId
                    \in Range(chats[sends[t].chatId].participants))
                => IF sockets[sends[t].sock].userId \in chats[sends[t].chatId].admins
                   THEN sends'[t].pc = "saveMessage"
                   ELSE sends'[t].pc = "denied"
          /\ sends'[t].pc = "denied" => NoTrace(t)']_vars

\* C10 witness: in the group with onlyAdminsCanMessage, a send of the
\* participant u2 was refused and a send of the admin u1 was broadcast
C10_Witness ==
    \E t, k \in SendIds :
        /\ chats["g"].onlyAdminsCanMessage
        /\ sends[t].chatId = "g" /\ sends[t].pc = "denied"
        /\ sockets[sends[t].sock].userId = "u2"
        /\ "u2" \in Range(chats["g"].participants)
        /\ sends[k].chatId = "g" /\ sends[k].pc = "sent"
        /\ sockets[sends[k].sock].userId = "u1"
        /\ \E i \in 1..Len(messages) : messages[i].id = k

\* ----------------------------------------------------------------------
\* message events: edit and delete
\* ----------------------------------------------------------------------

\* the identity on the socket of handler o
OpCaller(o) == sockets[ops[o].sock].userId

\* handler o of the given event resumes after Message.findById in this step
OpResumesFind(o, kind) ==
    ops[o].kind = kind /\ ops[o].pc = "find" /\ ops'[o].pc # "find"

\* handler o of the given event resumes after its save in this step
OpSaves(o, kind) ==
    ops[o].kind = kind /\ ops[o].pc = "save" /\ ops'[o].pc # "save"

\* this step writes an error to the socket of handler o and nothing else
ErrorToCallerOnly(o) ==
    /\ \A p \in wire' : p.to = ops[o].sock /\ p.ev = "error"
    /\ sockets[ops[o].sock].status = "open" => wire' # {}

\* the connected sockets subscribed to the room of a chat
RoomSockets(chatId) == {d \in rooms[ChatRoom(chatId)] : sockets[d].status = "open"}

\* a handler that failed never resumes
FailedStays(o) == ops[o].pc = "failed" => ops'[o] = ops[o]

C12_DeleteForEveryoneBySender ==
    [][\A o \in OpIds :
          /\ (OpResumesFind(o, "delete") /\ ops[o].flag
                 /\ FindMessage(ops[o].msgId) # NoMessage) =>
                IF FindMessage(ops[o].msgId).sender = OpCaller(o)
                THEN ops'[o].pc = "save" /\ messages' = messages /\ wire' = {}
                ELSE /\ ops'[o].pc = "failed"
                     /\ messages' = messages
                     /\ ErrorToCallerOnly(o)
          /\ (OpSaves(o, "delete") /\ ops[o].flag) =>
                /\ ops[o].read.sender = OpCaller(o)
                /\ FindMessage(ops[o].msgId)'.deleted
                /\ FindMessage(ops[o].msgId)'.content = Tombstone
                /\ WrittenTo("message_deleted", ops[o].msgId)
                      = RoomSockets(ops[o].read.chat)
          /\ (ops[o].kind = "delete" /\ ops[o].flag) => FailedStays(o)]_vars

\* C12 witness: the sender has just deleted a message for everyone, and
\* message_deleted went to a socket of another identity
C12_Witness ==
    \E o \in OpIds, p \in wire :
        /\ ops[o].kind = "delete" /\ ops[o].flag /\ ops[o].pc = "done"
        /\ FindMessage(ops[o].msgId).deleted
        /\ FindMessage(ops[o].msgId).content = Tombstone
        /\ p.ev = "message_deleted" /\ p.msg = ops[o].msgId
        /\ sockets[p.to].userId # OpCaller(o)

\* handler k, a delete for everyone of the message of handler o, had ended
\* with success before the event of handler o arrived
DeletedBefore(o, k) ==
    /\ k \in ops[o].after
    /\ ops[k].kind = "delete" /\ ops[k].flag /\ ops[k].pc = "done"
    /\ ops[k].msgId = ops[o].msgId

\* C13: a delete for everyone of a message that an earlier delete for everyone
\* has deleted raises no error and leaves every field of the stored message,
\* deletedAt included, as it was.  Fails: deleteMessage sets deletedAt again.
C13_SecondDeleteIsNoOp ==
    [][\A o, k \in OpIds :
          (ops[o].kind = "delete" /\ ops[o].flag /\ DeletedBefore(o, k)
             /\ ops'[o] # ops[o])
          => /\ messages' = messages
             /\ ops'[o].pc # "failed"
             /\ \A p \in wire' : p.ev # "error"]_vars

OthersReactions(msg, userId) == SelectSeq(msg.reactions, LAMBDA r : r.user # userId)

\* the reactions of userId, in order
OwnReactions(msg, userId) == SelectSeq(msg.reactions, LAMBDA r : r.user = userId)

\* handler k, an add_reaction of the caller of handler o on the same message,
\* had ended with success before the event of handler o arrived, and these
\* two are the only reaction events of that user on that message
ReactedBefore(o, k) ==
    /\ k \in ops[o].after
    /\ ops[k].kind = "addReaction" /\ ops[k].pc = "done"
    /\ ops[k].msgId = ops[o].msgId
    /\ OpCaller(k) = OpCaller(o)
    /\ \A j \in OpIds \ {o, k} :
          ~(/\ ops[j].kind \in {"addReaction", "removeReaction"}
            /\ ops[j].msgId = ops[o].msgId
            /\ OpCaller(j) = OpCaller(o))

\* C15: when a user's add_reaction with emoji F is saved after an earlier
\* add_reaction of the same user on the same message has ended (the two
\* being that user's only reaction events on the message, whatever other
\* users do meanwhile), the stored message holds exactly one reaction of that
\* user, its emoji is F, and the reactions of the other users are as before
\* the save.
C15_ReactionOverwritten ==
    [][\A o, k \in OpIds :
          (/\ OpSaves(o, "addReaction") /\ ops'[o].pc = "done"
           /\ ReactedBefore(o, k))
          => LET old == FindMessage(ops[o].msgId)
                 new == FindMessage(ops[o].msgId)'
             IN /\ OwnReactions(new, OpCaller(o))
                      = <<[user |-> OpCaller(o), emoji |-> ops[o].arg]>>
                /\ OthersReactions(new, OpCaller(o)) = OthersReactions(old, OpCaller(o))]_vars

\* C15 witness: a user added E and then, after that had ended, F to a message
\* that carries a reaction of another user
C15_Witness ==
    \E o, k \in OpIds :
        /\ ops[o].kind = "addReaction" /\ ops[o].pc = "done" /\ ops[o].arg = "F"
        /\ ops[k].kind = "addReaction" /\ ops[k].pc = "done" /\ ops[k].arg = "E"
        /\ k \in ops[o].after /\ ops[k].msgId = ops[o].msgId
        /\ OpCaller(k) = OpCaller(o)
        /\ FindMessage(ops[o].msgId).reactions
              = <<[user |-> "u3", emoji |-> "E"], [user |-> OpCaller(o), emoji |-> "F"]>>

\* C16: a step of an add_reaction or a remove_reaction handler whose caller is
\* not a participant of the message's chat changes no reaction list and writes
\* no reaction_added and no reaction_removed.  Fails: remove_reaction does not
\* look at the chat and broadcasts reaction_removed to the room.
C16_ReactionsOnlyByMembers ==
    [][\A o \in OpIds :
          (/\ ops[o].kind \in {"addReaction", "removeReaction"}
           /\ ops'[o] # ops[o]
           /\ FindMessage(ops[o].msgId) # NoMessage
           /\ OpCaller(o) \notin Range(chats[FindMessage(ops[o].msgId).chat].participants))
          => /\ \A i \in 1..Len(messages) :
                   messages'[i].reactions = messages[i].reactions
             /\ \A p \in wire' : p.ev \notin {"reaction_added", "reaction_removed"}]_vars

\* C17: the reaction list in every reaction_added and reaction_removed packet
\* is the reaction list of the message in the Store when the packet is
\* written.  Fails: the packet carries the list of the handler's own copy of
\* the document, which lacks what other handlers saved since it was read.
C17_BroadcastCarriesStoredList ==
    [][\A p \in wire' :
          p.ev \in {"reaction_added", "reaction_removed"}
             => p.data = FindMessage(p.msg)'.reactions]_vars

\* ----------------------------------------------------------------------
\* message events: read receipts
\* ----------------------------------------------------------------------

\* handler k, a mark_as_read of the caller of handler o with the same chat and
\* the same messageIds, had ended with success before the event of o arrived
ReadBefore(o, k) ==
    /\ k \in ops[o].after
    /\ ops[k].kind = "read" /\ ops[k].pc = "done"
    /\ ops[k].chatId = ops[o].chatId /\ ops[k].ids = ops[o].ids
    /\ OpCaller(k) = OpCaller(o)

\* C18: no step of a mark_as_read that follows an ended mark_as_read of the
\* same user with the same chat and the same messageIds changes the readBy
\* list (hence the read-by set) of any message.
C18_MarkAsReadIdempotent ==
    [][\A o, k \in OpIds :
          (ops[o].kind = "read" /\ ops'[o] # ops[o] /\ ReadBefore(o, k))
          => \A i \in 1..Len(messages) : messages'[i].readBy = messages[i].readBy]_vars

\* C18 witness: a second mark_as_read with explicit ids has ended after a
\* first one that had put the reader into the readBy of a message
C18_Witness ==
    \E o, k \in OpIds :
        /\ ops[o].kind = "read" /\ ops[o].pc = "done" /\ ReadBefore(o, k)
        /\ ops[o].ids = <<StoredId(1), StoredId(2)>>
        /\ ops[k].marked = {StoredId(1), StoredId(2)}
        /\ FindMessage(StoredId(1)).readBy = <<OpCaller(o)>>

\* C19: no message's readBy holds the message's own sender.
C19_SenderNeverInReadBy ==
    \A i \in 1..Len(messages) : messages[i].sender \notin Range(messages[i].readBy)

\* C19 witness: the sender of the messages of chat g has marked all of g as
\* read and so has another participant; readBy holds the other participant only
C19_Witness ==
    \E o, k \in OpIds :
        /\ ops[o].kind = "read" /\ ops[o].pc = "done" /\ ops[o].ids = <<>>
        /\ ops[o].chatId = "g" /\ OpCaller(o) = FindMessage(StoredId(1)).sender
        /\ ops[k].kind = "read" /\ ops[k].pc = "done" /\ ops[k].chatId = "g"
        /\ OpCaller(k) # OpCaller(o)
        /\ FindMessage(StoredId(1)).readBy = <<OpCaller(k)>>

\* C20: when mark_as_read ends, messages_read is written to the sockets of
\* the room except the reader's socket, and its messageIds are the ids of the
\* messages the call has put the reader into the readBy of.  Fails: the
\* payload repeats the messageIds of the request, which are absent when the
\* call marks all and may name messages the call did not change.
C20_ReceiptListsAffected ==
    [][\A o \in OpIds :
          (ops[o].kind = "read" /\ ops[o].pc # "done" /\ ops'[o].pc = "done")
          => /\ {p.to : p \in {q \in wire' : q.ev = "messages_read"}}
                   = RoomSockets(ops[o].chatId) \ {ops[o].sock}
             /\ \A p \in wire' :
                   p.ev = "messages_read" => Range(p.data) = ops'[o].marked]_vars

\* ----------------------------------------------------------------- typing

\* identity u is in the typing set of chat ch
IsTyping(ch, u) == ch \in DOMAIN typingUsers /\ u \in typingUsers[ch]

\* the disconnect handler of socket c gets the answer of its first await
DisconnectResumes(c) ==
    sockets[c].cleanup = "updateUser" /\ sockets'[c].cleanup # "updateUser"

C22_TypingEntryExpires ==
    \A c \in Conns, ch \in ChatIds :
        [](ch \in sockets[c].typing
           => <>(\/ ch \notin sockets[c].typing
                 \/ ~IsOpen(c)
                 \/ ~IsTyping(ch, sockets[c].userId)))

\* C23: every typing_start packet written is about an identity that was not
\* in the chat's typing set before the step.
C23_NoRepeatedTypingStart ==
    [][\A p \in wire' :
          p.ev = "typing_start"
          => ~IsTyping(p.chat, p.user)]_vars

\* ------------------------------------------------------------ delivered-to

\* the delivered-to set of the stored message of send t
DeliveredTo(t) == UNION {messages[i].deliveredTo : i \in {k \in 1..Len(messages) :
                                                             messages[k].id = t}}

CallResumes(o) ==
    ops[o].kind = "call" /\ ops[o].pc = "findChat" /\ ops'[o].pc # "findChat"

\* the callId a call packet carries
CallOf(p) == p.data[1]

\* the events that carry a signaling payload
Signals == {"webrtc_offer", "webrtc_answer", "webrtc_ice_candidate"}

\* C25: a call_initiate that names a chat which does not exist, is a group,
\* or does not have the caller among its participants leaves the call table
\* as it is and writes no call_incoming.  Fails: the handler does not look
\* at the type of the chat.
C25_CallOnlyInPrivateChat ==
    [][\A o \in OpIds :
          (/\ CallResumes(o)
           /\ \/ ops[o].chatId \notin DOMAIN chats
              \/ chats[ops[o].chatId].type # "private"
              \/ sockets[ops[o].sock].userId
                    \notin Range(chats[ops[o].chatId].participants))
          => /\ activeCalls' = activeCalls
             /\ \A p \in wire' : p.ev # "call_incoming"]_vars

\* C26: call_incoming of a call in a 1:1 chat is written only to sockets of
\* the chat's other participant: never to a socket of the caller's identity
\* and never to a socket of an identity outside the chat.  Fails: the packet
\* goes to the whole Room but the calling socket.
C26_CallIncomingToCalleeOnly ==
    [][\A p \in wire' :
          (p.ev = "call_incoming" /\ chats[p.chat].type = "private")
          => /\ sockets[p.to].userId # p.user
             /\ sockets[p.to].userId \in Range(chats[p.chat].participants)]_vars

\* C27: a signaling packet that names a call of the call table is written
\* only if its sender and the identity it is written to are both
\* participants of the call's chat.  Fails: the handlers never look at the
\* call table.
C27_SignalOnlyBetweenParties ==
    [][\A p \in wire' :
          (p.ev \in Signals /\ CallOf(p) \in DOMAIN activeCalls)
          => LET parties == Range(chats[activeCalls[CallOf(p)].chatId].participants)
             IN /\ p.user \in parties
                /\ sockets[p.to].userId \in parties]_vars

\* C28: no signaling packet and no call_response is written for a callId
\* that the call table does not hold.  Fails: the handlers forward whatever
\* callId they are given.
C28_UnknownCallDropped ==
    [][\A p \in wire' :
          p.ev \in Signals \cup {"call_response"}
          => CallOf(p) \in DOMAIN activeCalls]_vars

\* C29: when a call_response for a call of the call table is forwarded, the
\* responder is among the call's participants afterwards if it accepted, and
\* the call is out of the table afterwards if it refused.  Fails: a refusal
\* leaves the record in the table.
C29_ResponseUpdatesCall ==
    [][\A p \in wire' :
          (p.ev = "call_response" /\ CallOf(p) \in DOMAIN activeCalls)
          => IF p.flag
             THEN /\ CallOf(p) \in DOMAIN activeCalls'
                  /\ p.user \in Range(activeCalls'[CallOf(p)].participants)
             ELSE CallOf(p) \notin DOMAIN activeCalls']_vars

\* C30: a call_end step leaves no record under its callId, whether the call
\* was ringing or answered, and leaves every other record as it was; a
\* call_end for a callId without a record leaves the call table unchanged.
C30_CallEndRemoves ==
    [][\A c \in Conns, callId \in CallIds \cup {NoCallId}, chatId \in ChatIds :
          CallEnd(c, callId, chatId)
          => /\ callId \notin DOMAIN activeCalls'
             /\ DOMAIN activeCalls' = DOMAIN activeCalls \ {callId}
             /\ \A k \in DOMAIN activeCalls' : activeCalls'[k] = activeCalls[k]
             /\ callId \notin DOMAIN activeCalls => activeCalls' = activeCalls]_vars

\* u1 has started the call k1 in the group and has just ended it: call_ended
\* was written to a socket of the Room and the table holds no record of k1
C30_Witness ==
    /\ \E o \in OpIds :
          ops[o].kind = "call" /\ ops[o].pc = "done" /\ ops[o].arg = "k1"
    /\ \E p \in wire : p.ev = "call_ended" /\ CallOf(p) = "k1"
    /\ "k1" \notin DOMAIN activeCalls

\* ------------------------------------------------------- calls and disconnect

RestingPcs == {"none", "done", "failed", "denied"}

\* process.exit(1) in the 'uncaughtException' handler of index.js: the process
\* ends with its in-memory tables, every connection closes with it, no
\* continuation of a handler that was awaiting the Store ever runs, and the
\* disconnect handlers do not run either
ProcessExit ==
    /\ relay' = "exited"
    /\ sockets' = [c \in Conns |->
                     [sockets[c] EXCEPT
                        !.status = IF @ = "open" THEN "closed" ELSE @,
                        !.setup = IF @ \in RestingPcs THEN @ ELSE "killed",
                        !.cleanup = IF @ \in RestingPcs THEN @ ELSE "killed",
                        !.typing = {}]]
    /\ ops' = [o \in OpIds |->
                 IF ops[o].pc \in RestingPcs THEN ops[o]
                 ELSE [ops[o] EXCEPT !.pc = "killed"]]
    /\ sends' = [t \in SendIds |->
                   IF sends[t].pc \in RestingPcs THEN sends[t]
                   ELSE [sends[t] EXCEPT !.pc = "killed"]]
    /\ activeUsers' = <<>>
    /\ typingUsers' = <<>>
    /\ activeCalls' = <<>>
    /\ rooms' = [r \in RoomNames |-> {}]
    /\ wire' = {}
    /\ UNCHANGED <<users, chats, messages, restOps, received, now>>

\* the listeners that destructure their payload outside any try:
\* leave_chat (113), typing_start (318) and typing_stop (335)
BareListeners == {"leave_chat", "typing_start", "typing_stop"}

\* one of these listeners called without a payload: `const { chatId } = data`
\* throws a TypeError out of the listener; nothing around the listener catches
\* it, so it reaches process.on('uncaughtException')
NoDataEvent(c, ev) ==
    /\ Ready(c)
    /\ ev \in BareListeners
    /\ ProcessExit

\* socket.on('join_chat') called without a payload: the destructuring is inside
\* the try, the catch answers the caller and the handler ends
JoinChatNoData(c) ==
    /\ Ready(c)
    /\ wire' = {Pkt(d, "error", "", "", 0, 0, FALSE) : d \in SocketEmit(c)}
    /\ UNCHANGED <<relay, activeCalls, ops, now, sockets, activeUsers, typingUsers,
                   rooms, users, chats, messages, sends, restOps, received>>

\* call_initiate when `await Chat.findById(chatId)` rejects: the catch answers
\* the caller with 'error' and the handler ends
CallFindChatFails(o) ==
    /\ ops[o].kind = "call" /\ ops[o].pc = "findChat"
    /\ OpFails(o)
    /\ UNCHANGED <<relay, activeCalls, sockets, activeUsers, typingUsers, rooms, users,
                   chats, sends, restOps, received, now>>

\* connections being set up and used while events arrive with and without
\* their payload and the Store fails under call_initiate
NextCrash ==
    \/ \E c \in Conns, token \in ValidTokens : Connect(c, token)
    \/ \E c \in Conns : ConnUpdateUser(c)
    \/ \E c \in Conns : ConnFindChats(c)
    \/ \E c \in Conns : ConnFindUser(c)
    \/ \E c \in Conns, chatId \in ChatIds : LeaveChat(c, chatId)
    \/ \E c \in Conns, chatId \in ChatIds, callId \in CallIds :
          CallInitiate(c, chatId, callId)
    \/ \E o \in OpIds : CallFindChat(o)
    \/ \E o \in OpIds : CallFindChatFails(o)
    \/ \E c \in Conns : JoinChatNoData(c)
    \/ \E c \in Conns, ev \in BareListeners : NoDataEvent(c, ev)

SpecCrash == Init /\ [][NextCrash]_vars

\* C32: no inbound event, with or without a well-formed payload, and no Store
\* failure ends the relay process, and no handler that another connection has
\* in flight is cut off before it completes.
C32_RelaySurvives ==
    /\ relay = "up"
    /\ \A c \in Conns : sockets[c].setup # "killed"
    /\ \A o \in OpIds : ops[o].pc # "killed"

\* C33: typing_start, typing_stop and call_end that name a chat of which the
\* caller's identity is not a participant change neither the typing table nor
\* the call table and write no packet to a socket subscribed to the chat's room.
C33_OutsiderEventsInert ==
    [][\A c \in Conns, ch \in ChatIds :
          (/\ Ready(c)
           /\ ~IsParticipant(chats[ch], sockets[c].userId)
           /\ \/ TypingStart(c, ch)
              \/ TypingStop(c, ch)
              \/ \E k \in CallIds : CallEnd(c, k, ch))
          => /\ typingUsers' = typingUsers
             /\ activeCalls' = activeCalls
             /\ \A p \in wire' : p.to \notin rooms[ChatRoom(ch)]]_vars

\* C34: a call id moves only from no session to ringing (call_initiate), from
\* ringing to accepted (call_response accepted) and from any state to ended;
\* a session that stays in the table keeps its initiator and its chat, and its
\* participants only grow at the end, also when call_initiate names its id.
C34_SessionNotReplaced ==
    [][\A k \in DOMAIN activeCalls :
          k \in DOMAIN activeCalls'
          => /\ activeCalls'[k].initiator = activeCalls[k].initiator
             /\ activeCalls'[k].chatId = activeCalls[k].chatId
             /\ Len(activeCalls'[k].participants) >= Len(activeCalls[k].participants)
             /\ SubSeq(activeCalls'[k].participants, 1,
                       Len(activeCalls[k].participants))
                  = activeCalls[k].participants]_vars

\* identity u has no open connection
Offline(u) == \A c \in Conns : sockets[c].userId = u => ~IsOpen(c)

\* C35: disconnect always deregisters: an identity whose connections have all
\* closed for good is, from some point on, absent from the presence table and
\* marked offline in the Store, also when a connection closed while its
\* connection handler was still awaiting the Store.
C35_DisconnectDeregisters ==
    \A u \in Clients :
        <>[]Offline(u) => <>[](u \notin DOMAIN activeUsers /\ ~users[u].isOnline)

\* C36: whatever the interleaving of add_reaction and remove_reaction handlers,
\* the stored reaction list of every message holds at most one reaction per user.
C36_OneReactionPerUser ==
    \A i \in 1..Len(messages) :
        \A j, k \in 1..Len(messages[i].reactions) :
            messages[i].reactions[j].user = messages[i].reactions[k].user => j = k

\* C37: whatever the interleaving of mark_as_read handlers, the read-by list of
\* every message holds at most one entry per user, and no step removes an entry.
C37_ReadByOncePerUser ==
    [][\A i \in 1..Len(messages) :
          /\ \A j, k \in 1..Len(messages'[i].readBy) :
                messages'[i].readBy[j] = messages'[i].readBy[k] => j = k
          /\ Range(messages[i].readBy) \subseteq Range(messages'[i].readBy)]_vars

\* ------------------------------------------- send_message: the Store fails
\* the positions at which send_message awaits the Store
SendAwaits == {"findChat", "saveMessage", "saveChat", "populate", "markDelivered"}

\* socket.emit('message_error', { tempId, error }) of the catch
MessageErrorPkts(t) ==
    {Pkt(d, "message_error", "", "", 0, sends[t].tempId, FALSE) :
        d \in SocketEmit(sends[t].sock)}

\* the Store call that send_message is awaiting rejects: the call has no
\* effect, the rest of the try is skipped and the catch answers the sender
SendRejected(t) ==
    /\ sends[t].pc \in SendAwaits
    /\ sends' = [sends EXCEPT ![t].pc = "failed"]
    /\ wire' = MessageErrorPkts(t)
    /\ UNCHANGED <<relay, activeCalls, ops, now, sockets, activeUsers, typingUsers,
                   rooms, users, chats, messages, restOps, received>>

\* Sending over a Store that may fail under any call of the handler.
NextSendFail ==
    \/ \E c \in Conns, token \in ValidTokens : Connect(c, token)
    \/ \E c \in Conns : ConnUpdateUser(c)
    \/ \E c \in Conns : ConnFindChats(c)
    \/ \E c \in Conns : ConnFindUser(c)
    \/ \E c \in Conns, chatId \in ChatIds : SendMessage(c, chatId)
    \/ \E t \in SendIds : SendFindChat(t)
    \/ \E t \in SendIds : SendSaveMessage(t)
    \/ \E t \in SendIds : SendSaveChat(t)
    \/ \E t \in SendIds : SendPopulate(t)
    \/ \E t \in SendIds : SendMarkDelivered(t)
    \/ \E t \in SendIds : SendRejected(t)

SpecSendFail == Init /\ [][NextSendFail]_vars

\* the Store holds a message of send t
Persisted(t) == \E i \in 1..Len(messages) : messages[i].id = t

\* C38: a send_message that ended with new_message and message_sent has its
\* message in the Store, and one that ended with an error to the sender
\* ('error' of a refused send, message_error of a failed one) has left no
\* message in the Store, whichever Store call failed.
C38_ErrorLeavesNothing ==
    \A t \in SendIds :
        /\ sends[t].pc = "sent" => Persisted(t)
        /\ sends[t].pc \in {"denied", "failed"} => ~Persisted(t)

\* C39: a step of a mark_as_read handler that was called with chat id C and
\* explicit message ids leaves every message of any other chat as it is.
C39_ReadOnlyInNamedChat ==
    [][\A o \in OpIds, i \in 1..Len(messages) :
          (/\ ops[o].kind = "read" /\ ops[o].pc = "marking"
           /\ ops'[o] # ops[o]
           /\ messages[i].chat # ops[o].chatId)
          => messages'[i] = messages[i]]_vars

\* ---------------------------------------------- REST: POST /api/chats/private
\* the ids the Store gives to the chats that are created while the relay runs
NewChatIds == {"n1", "n2"}

\* the id of the next chat that is created
FreshChatId == IF "n1" \in DOMAIN chats THEN "n2" ELSE "n1"

\* the userId a client puts into the body: a user, or an id of no user
PrivateTargets == Users \cup {"ghost"}

\* Chat.findOne({type: 'private', participants: {$all: [user1Id, user2Id]}}):
\* the chats that match
PrivateChatsOf(user1Id, user2Id) ==
    {c \in DOMAIN chats : /\ chats[c].type = "private"
                          /\ {user1Id, user2Id} \subseteq Range(chats[c].participants)}

\* the document of Chat.create({type: 'private', participants: [user1Id, user2Id]})
PrivateChat(user1Id, user2Id) ==
    [NoChat EXCEPT !.type = "private", !.participants = <<user1Id, user2Id>>]

\* router.post('/private') of reqUser up to `await User.findById(userId)`; no
\* user of the model has blocked another
CreatePrivateChat(reqUser, userId) ==
    /\ \E o \in OpIds :
         /\ FreeOp(o)
         /\ ops' = [ops EXCEPT ![o] = [NoOp EXCEPT !.pc = "findUser", !.kind = "private",
                                                   !.arg = reqUser, !.ids = <<userId>>,
                                                   !.after = EndedOps]]
    /\ wire' = {}
    /\ UNCHANGED <<relay, activeCalls, sockets, activeUsers, typingUsers, rooms, users,
                   chats, messages, sends, restOps, received, now>>

\* resumes after User.findById: 404 for an unknown user, 400 for oneself, or
\* findOrCreatePrivateChat is called and awaits its findOne
PrivateFindUser(o) ==
    /\ ops[o].kind = "private" /\ ops[o].pc = "findUser"
    /\ ops' = [ops EXCEPT ![o].pc = IF ops[o].ids[1] \notin Users
                                       \/ ops[o].ids[1] = ops[o].arg
                                    THEN "failed" ELSE "findOne"]
    /\ wire' = {}
    /\ UNCHANGED <<relay, activeCalls, sockets, activeUsers, typingUsers, rooms, users,
                   chats, messages, sends, restOps, received, now>>

\* findOrCreatePrivateChat resumes after findOne: the chat found is returned,
\* or Chat.create is called
PrivateFindOne(o) ==
    /\ ops[o].kind = "private" /\ ops[o].pc = "findOne"
    /\ IF PrivateChatsOf(ops[o].arg, ops[o].ids[1]) # {}
       THEN \E c \in PrivateChatsOf(ops[o].arg, ops[o].ids[1]) :
               ops' = [ops EXCEPT ![o].pc = "done", ![o].chatId = c]
       ELSE ops' = [ops EXCEPT ![o].pc = "create"]
    /\ wire' = {}
    /\ UNCHANGED <<relay, activeCalls, sockets, activeUsers, typingUsers, rooms, users,
                   chats, messages, sends, restOps, received, now>>

\* resumes after Chat.create: the new chat is in the Store under a fresh id
PrivateCreate(o) ==
    /\ ops[o].kind = "private" /\ ops[o].pc = "create"
    /\ FreshChatId \in NewChatIds \ DOMAIN chats
    /\ chats' = (FreshChatId :> PrivateChat(ops[o].arg, ops[o].ids[1])) @@ chats
    /\ ops' = [ops EXCEPT ![o].pc = "done", ![o].chatId = FreshChatId]
    /\ wire' = {}
    /\ UNCHANGED <<relay, activeCalls, sockets, activeUsers, typingUsers, rooms, users,
                   messages, sends, restOps, received, now>>

\* Clients ask for private chats while earlier requests are still in flight.
NextPrivate ==
    \/ \E reqUser \in Clients, userId \in PrivateTargets :
          CreatePrivateChat(reqUser, userId)
    \/ \E o \in OpIds : PrivateFindUser(o)
    \/ \E o \in OpIds : PrivateFindOne(o)
    \/ \E o \in OpIds : PrivateCreate(o)

SpecPrivate == Init /\ [][NextPrivate]_vars

\* C40: whatever the interleaving of the requests that create a private chat
\* for a pair of users, the Store holds at most one private chat for the pair.
C40_OnePrivateChatPerPair ==
    \A a, b \in DOMAIN chats :
        (/\ chats[a].type = "private" /\ chats[b].type = "private"
         /\ Range(chats[a].participants) = Range(chats[b].participants))
        => a = b
====
